---- MODULE Spec2Model ----
(***************************************************************************)
(* Sync orchestrator of the MedTech dashboard's Navigator API services.    *)
(*                                                                         *)
(* Two service classes are modelled, selected by the variable "variant":   *)
(*   "implicit"  NavigatorAPIServiceImplicit  (src/unnamed/part_001)        *)
(*   "pkce"      NavigatorAPIServicePKCE      (navigator-api-service-pkce)  *)
(* A sync invocation is a coroutine that runs atomically between its       *)
(* awaits; every action below is one such atomic run.                      *)
(***************************************************************************)
EXTENDS Integers, Sequences, FiniteSets, TLC

\* ------------------------------------------------------------------ bounds
\* The clock runs from 0 to MaxTime ticks.
MaxTime == 1
\* Longest agreement list the upstream list endpoint returns.
MaxList == 2
\* Number of localStorage writes that fail in one behaviour.
MaxQuotaErrors == 1
\* Longest agreement array handed to detectConflicts on its own.
MaxAgreements == 3

\* ------------------------------------------------------- program constants
\* ensureValidToken refreshes when less than 300000 ms remain; the clock
\* tick is 150 s, so the margin is 2 ticks.
RefreshMargin == 2
\* sleep(50) between detail requests.
DetailDelayMs == 50

\* ------------------------------------------------------------ basic values
\* JavaScript null / absent map entry / absent storage key, and a present
\* value, as sequences of length 0 and 1.
None == <<>>
Some(x) == <<x>>
IsSome(o) == o # <<>>
Val(o) == o[1]

\* The JavaScript value undefined in a string-valued field.
Undefined == "<undefined>"
\* A field JSON.stringify dropped (it was undefined), seen after JSON.parse.
Absent == "<absent>"

\* a || b on string-valued fields (undefined and '' are falsy).
OrElse(a, b) == IF a \in {Undefined, Absent, ""} THEN b ELSE a

Variants == {"implicit", "pkce"}

\* Invocation ids.  Callers serialize sync requests, so Spec runs one
\* invocation at a time, always in slot 1.
SyncIds == {1}

\* --------------------------------------------------------------- raw data
\* A raw Navigator record, reduced to the keys the orchestrator and the
\* conflict detector read.
Raw(id, agreementId, name, cfTitle, terr, prod, excl, exp) ==
    [id |-> id, agreementId |-> agreementId, name |-> name, cfTitle |-> cfTitle,
     cfTerritories |-> terr, cfProducts |-> prod, cfExclusivity |-> excl,
     cfExpiration |-> exp]

\* Coarse records as the list endpoint returns them (no custom fields):
\* one with an id, one with neither id nor agreementId, and one that has
\* only an agreementId and an expiration date that does not parse.
CoarseA == Raw("a1", Undefined, "A1 (list)", Undefined, <<>>, <<>>, Undefined, "2027-01-31")
CoarseNoId == Raw(Undefined, Undefined, "C3 (list)", Undefined, <<"DE">>, <<"MRI">>, "Exclusive", "2027-01-31")
CoarseBadDate == Raw(Undefined, "d4", "D4 (list)", Undefined, <<>>, <<>>, Undefined, "TBD")

CoarseRecords == {CoarseA, CoarseNoId, CoarseBadDate}

\* What the detail endpoint returns for an agreement id.
DetailOf(agreementId) ==
    IF agreementId = "a1"
    THEN Raw("a1", Undefined, "A1 (list)", "A1", <<"DE", "AT">>, <<"MRI", "CT">>, "Exclusive", "2027-01-31")
    ELSE Raw(Undefined, agreementId, "D4 (list)", "D4", <<"DE">>, <<"MRI">>, "Exclusive", "2028-09-30")

\* All sequences of distinct elements of S of length at most n.
RECURSIVE SeqsUpTo(_, _)
SeqsUpTo(S, n) ==
    IF n = 0 THEN {<<>>}
    ELSE LET shorter == SeqsUpTo(S, n - 1)
             longest == {t \in shorter : Len(t) = n - 1}
         IN  shorter \cup UNION {{Append(s, x) : x \in S \ {s[k] : k \in 1..Len(s)}} :
                                 s \in longest}

\* Arrays an OK response of the list endpoint can carry (possibly empty).
UpstreamLists == SeqsUpTo(CoarseRecords, MaxList)

\* How a list request can end: network error, non-OK status, an OK body
\* that holds no array, an OK body with an array.
ListOutcomes == {"neterr", "notok", "notarray", "ok"}
\* How a detail request can end: OK, non-OK status, or an exception
\* (fetch rejects, or the body cannot be read).
DetailOutcomes == {"ok", "notok", "throw"}

\* ------------------------------------------------------------ normalizer
\* new Date(d) is a valid date.
ValidDate(d) == d \notin {Undefined, Absent, "", "TBD"}

\* calculateExpirationDate always yields a formatted date.
calculateExpirationDate(raw) == "calc-date"

\* The canonical record processAgreement builds, before the derived fields.
processed(v, raw) ==
    IF v = "pkce"
    THEN [id |-> OrElse(raw.id, raw.agreementId),
          navigatorId |-> raw.id,
          title |-> OrElse(raw.cfTitle, raw.name),
          expirationDate |-> raw.cfExpiration,
          territoryCountries |-> raw.cfTerritories,
          productCategories |-> raw.cfProducts,
          exclusivityStatus |-> OrElse(raw.cfExclusivity, "Non-Exclusive")]
    ELSE [id |-> OrElse(raw.id, OrElse(raw.agreementId, "agr-now")),
          navigatorId |-> raw.id,
          title |-> OrElse(raw.cfTitle, OrElse(raw.name, "Untitled Agreement")),
          expirationDate |-> OrElse(raw.cfExpiration, calculateExpirationDate(raw)),
          territoryCountries |-> raw.cfTerritories,
          productCategories |-> raw.cfProducts,
          exclusivityStatus |-> OrElse(raw.cfExclusivity, "Non-Exclusive")]

\* calculateDerivedFields raises a RangeError (toISOString of an invalid
\* date) exactly when the expiration date does not parse.
calculateDerivedFieldsThrows(agreement) == ~ValidDate(agreement.expirationDate)

processAgreement(v, raw) == processed(v, raw)
processAgreementThrows(v, raw) == calculateDerivedFieldsThrows(processed(v, raw))

\* agreements.map(processAgreement): the mapped array, or an exception.
processAgreements(v, raws) ==
    IF \E k \in 1..Len(raws) : processAgreementThrows(v, raws[k])
    THEN [threw |-> TRUE, value |-> <<>>]
    ELSE [threw |-> FALSE, value |-> [k \in 1..Len(raws) |-> processAgreement(v, raws[k])]]

\* The fixed demo dataset (the keys the orchestrator and detector read).
Sample(id, nav, title, exp, terr, prod, excl) ==
    [id |-> id, navigatorId |-> nav, title |-> title, expirationDate |-> exp,
     territoryCountries |-> terr, productCategories |-> prod,
     exclusivityStatus |-> excl]

getSampleAgreements ==
    << Sample("AGR-001", "nav_001", "[SAMPLE] Germany & Austria - Imaging Systems", "2027-01-31",
              <<"Germany", "Austria">>,
              <<"MRI Systems", "CT Scanners", "Ultrasound Systems">>, "Exclusive"),
       Sample("AGR-002", "nav_002", "[SAMPLE] UK & Ireland - Patient Monitoring", "2025-06-30",
              <<"United Kingdom", "Ireland">>,
              <<"Patient Monitoring Systems", "AI Software">>, "Conditional Exclusive"),
       Sample("AGR-003", "nav_003", "[SAMPLE] Japan - Advanced Imaging & AI", "2028-09-30",
              <<"Japan">>,
              <<"MRI Systems", "CT Scanners", "AI Software">>, "Exclusive"),
       Sample("AGR-004", "nav_004", "[SAMPLE] Brazil - Ultrasound Systems", "2025-03-31",
              <<"Brazil">>,
              <<"Ultrasound Systems">>, "Non-Exclusive"),
       Sample("AGR-005", "nav_005", "[SAMPLE] Australia & New Zealand - Full Portfolio", "2027-11-30",
              <<"Australia", "New Zealand">>,
              <<"MRI Systems", "CT Scanners", "Ultrasound Systems",
                "Patient Monitoring Systems", "AI Software">>, "Exclusive") >>

\* ------------------------------------------------------ conflict detector
includes(seq, x) == \E k \in 1..Len(seq) : seq[k] = x
\* A filter that keeps the order of the second array.
filterIncluded_SecondOrder(xs, ys) == SelectSeq(ys, LAMBDA y : includes(xs, y))

filterIncluded(xs, ys) == SelectSeq(xs, LAMBDA x : includes(ys, x))

\* A detector that flags a pair only when both agreements are Exclusive.
hasConflict_BothExclusive(a, b) ==
    a.exclusivityStatus = "Exclusive" /\ b.exclusivityStatus = "Exclusive"

hasConflict(a, b) ==
    \/ (a.exclusivityStatus = "Exclusive" /\ b.exclusivityStatus = "Exclusive")
    \/ (a.exclusivityStatus = "Exclusive" /\ b.exclusivityStatus # "Exclusive")
    \/ (b.exclusivityStatus = "Exclusive" /\ a.exclusivityStatus # "Exclusive")

\* A record whose severity looks at the first agreement only.
conflictRecord_SeverityOfFirst(a, b) ==
    [type |-> "Territory/Product Conflict",
     severity |-> IF a.exclusivityStatus = "Exclusive" THEN "High" ELSE "Medium",
     agreement1 |-> [id |-> a.id, title |-> a.title, exclusivity |-> a.exclusivityStatus],
     agreement2 |-> [id |-> b.id, title |-> b.title, exclusivity |-> b.exclusivityStatus],
     overlappingTerritories |-> filterIncluded(a.territoryCountries, b.territoryCountries),
     overlappingProducts |-> filterIncluded(a.productCategories, b.productCategories)]

conflictRecord(a, b) ==
    [type |-> "Territory/Product Conflict",
     severity |-> IF a.exclusivityStatus = "Exclusive" /\ b.exclusivityStatus = "Exclusive"
                  THEN "High" ELSE "Medium",
     agreement1 |-> [id |-> a.id, title |-> a.title, exclusivity |-> a.exclusivityStatus],
     agreement2 |-> [id |-> b.id, title |-> b.title, exclusivity |-> b.exclusivityStatus],
     overlappingTerritories |-> filterIncluded(a.territoryCountries, b.territoryCountries),
     overlappingProducts |-> filterIncluded(a.productCategories, b.productCategories)]

\* A detector that puts each new record in front of the earlier ones.
RECURSIVE conflictsFrom_Unshift(_, _, _)
conflictsFrom_Unshift(agreements, i, j) ==
    IF i > Len(agreements) THEN <<>>
    ELSE IF j > Len(agreements) THEN conflictsFrom_Unshift(agreements, i + 1, i + 2)
    ELSE LET a == agreements[i]
             b == agreements[j]
             territoryOverlap == filterIncluded(a.territoryCountries, b.territoryCountries) # <<>>
             productOverlap == filterIncluded(a.productCategories, b.productCategories) # <<>>
         IN  conflictsFrom_Unshift(agreements, i, j + 1)
             \o (IF territoryOverlap /\ productOverlap /\ hasConflict(a, b)
                 THEN <<conflictRecord(a, b)>> ELSE <<>>)

\* The records pushed from pair (i, j) on, in loop order.
RECURSIVE conflictsFrom(_, _, _)
conflictsFrom(agreements, i, j) ==
    IF i > Len(agreements) THEN <<>>
    ELSE IF j > Len(agreements) THEN conflictsFrom(agreements, i + 1, i + 2)
    ELSE LET a == agreements[i]
             b == agreements[j]
             territoryOverlap == filterIncluded(a.territoryCountries, b.territoryCountries) # <<>>
             productOverlap == filterIncluded(a.productCategories, b.productCategories) # <<>>
         IN  (IF territoryOverlap /\ productOverlap /\ hasConflict(a, b)
              THEN <<conflictRecord(a, b)>> ELSE <<>>)
             \o conflictsFrom(agreements, i, j + 1)

detectConflicts(agreements) == conflictsFrom(agreements, 1, 2)

\* ------------------------------------------------------------------- JSON
\* JSON.stringify drops keys whose value is undefined; JSON.parse of the
\* text gives the object without them.
dropUndefined(x) == IF x = Undefined THEN Absent ELSE x

jsonAgreement(a) ==
    [a EXCEPT !.id = dropUndefined(@), !.navigatorId = dropUndefined(@),
              !.title = dropUndefined(@), !.expirationDate = dropUndefined(@)]

jsonConflict(c) ==
    [c EXCEPT !.agreement1.id = dropUndefined(@), !.agreement1.title = dropUndefined(@),
              !.agreement2.id = dropUndefined(@), !.agreement2.title = dropUndefined(@)]

\* A JSON text is represented by the value it parses to.
stringifyAgreements(agreements) ==
    [json |-> [k \in 1..Len(agreements) |-> jsonAgreement(agreements[k])]]
stringifyConflicts(conflicts) ==
    [json |-> [k \in 1..Len(conflicts) |-> jsonConflict(conflicts[k])]]
parse(text) == text.json

\* ---------------------------------------------------------------- state
VARIABLES
    variant,    \* which service class this page runs
    now,        \* Date.now(), in clock ticks
    svc,        \* the service object's fields, sessionStorage and localStorage
    inv,        \* per sync invocation: its position, locals, and what it did
    xch,        \* position of exchangeCodeForTokenPKCE
    quotaErrors, \* localStorage writes that have raised QuotaExceededError
    calc        \* a call of one of the pure functions: its arguments and result

vars == <<variant, now, svc, inv, xch, quotaErrors, calc>>

\* No pure-function call is being followed.
NoCalc == [fn |-> "none"]

EmptyCache == [agreements |-> None, conflicts |-> None]
EmptySession == [nav_token |-> None, oauth_state |-> None, pkce_code_verifier |-> None]
EmptyLocal == [nav_agreements |-> None, nav_conflicts |-> None, nav_last_sync |-> None]

\* constructor(): the in-memory fields of a fresh service object.
constructor(sessionStorage, localStorage) ==
    [accessToken |-> None, refreshToken |-> None, accountId |-> None,
     tokenExpiry |-> None, cache |-> EmptyCache, lastSyncTime |-> None,
     sessionStorage |-> sessionStorage, localStorage |-> localStorage]

\* Values generateRandomString(32) returns.
OAuthStates == {"s1"}
\* The state parameter a callback URL can carry: none, the value a flow of
\* this page stored, or a value made up elsewhere.
CallbackStates == {None, Some("forged")} \cup {Some(state) : state \in OAuthStates}
\* Token lifetimes the authorization server grants, in clock ticks.
ExpiresIn == {1, 2}

\* ---------------------------------------------------- service operations
\* A disconnect that clears the fields and the session, not localStorage.
disconnect_KeepsPersisted(s) ==
    [s EXCEPT !.accessToken = None, !.refreshToken = None, !.accountId = None,
              !.tokenExpiry = None, !.cache = EmptyCache, !.lastSyncTime = None,
              !.sessionStorage = EmptySession]

disconnect(s) ==
    [s EXCEPT !.accessToken = None, !.refreshToken = None, !.accountId = None,
              !.tokenExpiry = None, !.cache = EmptyCache, !.lastSyncTime = None,
              !.sessionStorage = EmptySession, !.localStorage = EmptyLocal]

\* storeToken / storeTokensSecurely: the token record put in sessionStorage.
tokenData(access, refresh, expiresIn, t) ==
    [access_token |-> access, refresh_token |-> refresh,
     expires_in |-> expiresIn, stored_at |-> t]

\* Implicit grant: loadToken().  Result: whether a token was loaded, and
\* the service afterwards (an expired stored token disconnects).
loadToken(s, t) ==
    IF ~IsSome(s.sessionStorage.nav_token) THEN [ok |-> FALSE, s |-> s]
    ELSE LET td == Val(s.sessionStorage.nav_token)
             expiresAt == td.stored_at + td.expires_in
         IN  IF t >= expiresAt
             THEN [ok |-> FALSE, s |-> disconnect(s)]
             ELSE [ok |-> TRUE, s |-> [s EXCEPT !.accessToken = Some(td.access_token)]]

isAuthenticated(s, t) ==
    IF IsSome(s.accessToken) THEN [ok |-> TRUE, s |-> s] ELSE loadToken(s, t)

\* PKCE: setTokens(tokenData) at time t.
setTokens(s, access, refresh, expiresIn, t) ==
    [s EXCEPT !.accessToken = Some(access), !.refreshToken = Some(refresh),
              !.tokenExpiry = Some(t + expiresIn),
              !.sessionStorage.nav_token = Some(tokenData(access, refresh, expiresIn, t))]

\* PKCE: loadTokens().
loadTokens(s) ==
    IF IsSome(s.sessionStorage.nav_token)
    THEN LET tokens == Val(s.sessionStorage.nav_token)
         IN  [ok |-> TRUE,
              s |-> [s EXCEPT !.accessToken = Some(tokens.access_token),
                              !.refreshToken = Some(tokens.refresh_token),
                              !.tokenExpiry = Some(tokens.stored_at + tokens.expires_in)]]
    ELSE [ok |-> FALSE, s |-> s]

\* PKCE: ensureValidToken() up to its await.  "throw": no token anywhere;
\* "refresh": it awaits refreshAccessTokenPKCE; "valid": it returns.
ensureValidToken(s, t) ==
    LET loaded == IF IsSome(s.accessToken) THEN [ok |-> TRUE, s |-> s] ELSE loadTokens(s)
    IN  IF ~loaded.ok THEN [outcome |-> "throw", s |-> s]
        ELSE IF IsSome(loaded.s.tokenExpiry) /\ Val(loaded.s.tokenExpiry) # 0
                /\ (Val(loaded.s.tokenExpiry) - t) < RefreshMargin
             THEN [outcome |-> "refresh", s |-> loaded.s]
             ELSE [outcome |-> "valid", s |-> loaded.s]

loadFromCache(s) ==
    IF IsSome(s.localStorage.nav_agreements)
    THEN [ok |-> TRUE,
          s |-> [s EXCEPT !.cache.agreements = Some(parse(Val(s.localStorage.nav_agreements))),
                          !.lastSyncTime = s.localStorage.nav_last_sync]]
    ELSE [ok |-> FALSE, s |-> s]

\* The getters read memory first and fall back to localStorage.  An empty
\* array is truthy, so a cached empty array is returned as it is.
getCachedAgreements(s) ==
    IF IsSome(s.cache.agreements) THEN Val(s.cache.agreements)
    ELSE IF IsSome(s.localStorage.nav_agreements) THEN parse(Val(s.localStorage.nav_agreements))
    ELSE <<>>

getCachedConflicts(s) ==
    IF IsSome(s.cache.conflicts) THEN Val(s.cache.conflicts)
    ELSE IF IsSome(s.localStorage.nav_conflicts) THEN parse(Val(s.localStorage.nav_conflicts))
    ELSE <<>>

getLastSyncTime(s) ==
    IF IsSome(s.lastSyncTime) THEN s.lastSyncTime ELSE s.localStorage.nav_last_sync

\* ------------------------------------------------------- sync invocation
\* progressCallback({stage, progress}).
report(stages, stage, progress) == Append(stages, [stage |-> stage, progress |-> progress])

\* The two shapes of the object syncAgreements returns.
successResult(agreements, conflicts, last) ==
    [success |-> TRUE, count |-> Len(agreements), conflicts |-> Len(conflicts),
     lastSyncTime |-> last, error |-> "", usingCache |-> FALSE]
failureResult(message, usingCache) ==
    [success |-> FALSE, count |-> 0, conflicts |-> 0,
     lastSyncTime |-> None, error |-> message, usingCache |-> usingCache]

\* What the cache, the timestamp and the persisted copy hold.
snapshot(s) == [cache |-> s.cache, lastSyncTime |-> s.lastSyncTime,
                localStorage |-> s.localStorage]

\* Whether a credential exists and whether its lifetime has run out.
credentialState(v, s, t) ==
    IF v = "pkce" /\ IsSome(s.accessToken) /\ IsSome(s.tokenExpiry)
    THEN (IF t >= Val(s.tokenExpiry) THEN "expired" ELSE "valid")
    ELSE IF IsSome(s.sessionStorage.nav_token)
    THEN LET td == Val(s.sessionStorage.nav_token)
         IN  IF t >= td.stored_at + td.expires_in THEN "expired" ELSE "valid"
    ELSE IF IsSome(s.accessToken) THEN "memory-only"
    ELSE "none"

\* An invocation that has not been started.
IdleInvocation ==
    [pc |-> "idle", stages |-> <<>>, result |-> None,
     agreementsList |-> <<>>, i |-> 0, detailedAgreements |-> <<>>,
     pre |-> snapshot(constructor(EmptySession, EmptyLocal)), cred |-> "none",
     refreshed |-> FALSE, disc |-> FALSE, netlog |-> <<>>, inflight |-> {},
     listOutcome |-> "", outcomes |-> <<>>, cycle |-> None]

\* syncAgreements entered at time t: locals and bookkeeping.
startedInvocation(v, s, t) ==
    [IdleInvocation EXCEPT !.pc = "running", !.pre = snapshot(s),
                           !.cred = credentialState(v, s, t)]

netEvent(ev, k) == [ev |-> ev, k |-> k]

\* A catch block that rethrows when nothing is cached to fall back on.
syncCatch_Rethrows(s, r, message) ==
    LET lc == loadFromCache(s)
    IN  [s |-> lc.s,
         r |-> IF lc.ok
               THEN [r EXCEPT !.pc = "done",
                              !.stages = report(r.stages, "error", 0),
                              !.result = Some(failureResult(message, TRUE))]
               ELSE [r EXCEPT !.pc = "raised",
                              !.stages = report(r.stages, "error", 0)]]

\* The catch block of syncAgreements.
syncCatch(s, r, message) ==
    LET lc == loadFromCache(s)
    IN  [s |-> lc.s,
         r |-> [r EXCEPT !.pc = "done",
                         !.stages = report(r.stages, "error", 0),
                         !.result = Some(failureResult(message, lc.ok))]]

\* localStorage.setItem can raise QuotaExceededError: 0 = no write fails,
\* k = the k-th of the three writes raises.
StorageFailures == IF quotaErrors < MaxQuotaErrors THEN 0..3 ELSE {0}

\* A caching stage that merges the new agreements into the cached ones
\* instead of replacing them.
cachingStage_Merges(s, agreements, conflicts, t, failAt) ==
    LET merged == getCachedAgreements(s) \o agreements
        inMemory == [s EXCEPT !.cache.agreements = Some(merged),
                              !.cache.conflicts = Some(conflicts),
                              !.lastSyncTime = Some(t)]
        w1 == [inMemory EXCEPT !.localStorage.nav_agreements = Some(stringifyAgreements(merged))]
        w2 == [w1 EXCEPT !.localStorage.nav_conflicts = Some(stringifyConflicts(conflicts))]
        w3 == [w2 EXCEPT !.localStorage.nav_last_sync = Some(t)]
    IN  CASE failAt = 1 -> [threw |-> TRUE, s |-> inMemory]
          [] failAt = 2 -> [threw |-> TRUE, s |-> w1]
          [] failAt = 3 -> [threw |-> TRUE, s |-> w2]
          [] OTHER -> [threw |-> FALSE, s |-> w3]

\* A caching stage that leaves a populated cache to the sync that wrote it.
cachingStage_KeepsExisting(s, agreements, conflicts, t, failAt) ==
    IF IsSome(s.cache.agreements) THEN [threw |-> FALSE, s |-> s]
    ELSE LET inMemory == [s EXCEPT !.cache.agreements = Some(agreements),
                                   !.cache.conflicts = Some(conflicts),
                                   !.lastSyncTime = Some(t)]
         IN  [threw |-> FALSE,
              s |-> [inMemory EXCEPT
                        !.localStorage.nav_agreements = Some(stringifyAgreements(agreements)),
                        !.localStorage.nav_conflicts = Some(stringifyConflicts(conflicts)),
                        !.localStorage.nav_last_sync = Some(t)]]

\* The caching stage: two cache.set, the timestamp, three setItem.
cachingStage(s, agreements, conflicts, t, failAt) ==
    LET inMemory == [s EXCEPT !.cache.agreements = Some(agreements),
                              !.cache.conflicts = Some(conflicts),
                              !.lastSyncTime = Some(t)]
        w1 == [inMemory EXCEPT !.localStorage.nav_agreements = Some(stringifyAgreements(agreements))]
        w2 == [w1 EXCEPT !.localStorage.nav_conflicts = Some(stringifyConflicts(conflicts))]
        w3 == [w2 EXCEPT !.localStorage.nav_last_sync = Some(t)]
    IN  CASE failAt = 1 -> [threw |-> TRUE, s |-> inMemory]
          [] failAt = 2 -> [threw |-> TRUE, s |-> w1]
          [] failAt = 3 -> [threw |-> TRUE, s |-> w2]
          [] OTHER -> [threw |-> FALSE, s |-> w3]

\* A sync that reports "complete" before its localStorage writes.
syncTail_CompleteBeforeWrites(s, r, agreements, t, failAt) ==
    LET conflicts == detectConflicts(agreements)
        st == report(report(report(r.stages, "processing", 60), "caching", 80), "complete", 100)
        c == cachingStage(s, agreements, conflicts, t, failAt)
        r1 == [r EXCEPT !.stages = st,
                        !.cycle = Some([agreements |-> agreements, conflicts |-> conflicts,
                                        time |-> t])]
    IN  IF c.threw THEN syncCatch(c.s, r1, "QuotaExceededError")
        ELSE [s |-> c.s,
              r |-> [r1 EXCEPT !.pc = "done",
                               !.result = Some(successResult(agreements, conflicts, Some(t)))]]

\* syncAgreements from the point where getAllAgreements has resolved with
\* "agreements" to its return.
syncTail(s, r, agreements, t, failAt) ==
    LET conflicts == detectConflicts(agreements)
        st == report(report(r.stages, "processing", 60), "caching", 80)
        c == cachingStage(s, agreements, conflicts, t, failAt)
        r1 == [r EXCEPT !.stages = st,
                        !.cycle = Some([agreements |-> agreements, conflicts |-> conflicts,
                                        time |-> t])]
    IN  IF c.threw THEN syncCatch(c.s, r1, "QuotaExceededError")
        ELSE [s |-> c.s,
              r |-> [r1 EXCEPT !.pc = "done",
                               !.stages = report(st, "complete", 100),
                               !.result = Some(successResult(agreements, conflicts, Some(t)))]]

\* A getAllAgreements whose catch block rethrows in both services.
getAllAgreementsCatch_Rethrows(v) ==
    [threw |-> TRUE, value |-> <<>>]

\* The catch block of getAllAgreements: the implicit-grant service returns
\* the demo dataset, the PKCE service rethrows.
getAllAgreementsCatch(v) ==
    IF v = "implicit" THEN [threw |-> FALSE, value |-> getSampleAgreements]
    ELSE [threw |-> TRUE, value |-> <<>>]

\* syncAgreements resumes with the outcome of getAllAgreements.
syncResume(s, r, ga, t, failAt) ==
    IF ga.threw THEN syncCatch(s, r, "getAllAgreements") ELSE syncTail(s, r, ga.value, t, failAt)

\* ------------------------------------------------- fetchAgreementDetails
agreementIdOf(basicAgreement) == OrElse(basicAgreement.id, basicAgreement.agreementId)

\* The first index >= from whose record has an id; Len + 1 if none (the
\* records in between are skipped by "continue").
RECURSIVE nextWithId(_, _)
nextWithId(agreementsList, from) ==
    IF from > Len(agreementsList) THEN from
    ELSE IF agreementIdOf(agreementsList[from]) # Undefined THEN from
    ELSE nextWithId(agreementsList, from + 1)

\* A loop that issues the requests of all remaining records at once.
detailLoop_FansOut(v, s, r, from, t, failAt) ==
    LET k == nextWithId(r.agreementsList, from)
        rest == {j \in k..Len(r.agreementsList) :
                    agreementIdOf(r.agreementsList[j]) # Undefined}
    IN  IF k <= Len(r.agreementsList)
        THEN [s |-> s,
              r |-> [r EXCEPT !.pc = "detail", !.i = k,
                              !.netlog = Append(r.netlog, netEvent("detail", k)),
                              !.inflight = r.inflight \cup rest]]
        ELSE LET pa == processAgreements(v, r.detailedAgreements)
             IN  syncResume(s, [r EXCEPT !.i = k],
                            IF pa.threw THEN getAllAgreementsCatch(v) ELSE pa, t, failAt)

\* The for loop from index "from" up to its next await (a detail request
\* is issued) or its end (the details are processed and the sync finishes).
detailLoop(v, s, r, from, t, failAt) ==
    LET k == nextWithId(r.agreementsList, from)
    IN  IF k <= Len(r.agreementsList)
        THEN [s |-> s,
              r |-> [r EXCEPT !.pc = "detail", !.i = k,
                              !.netlog = Append(r.netlog, netEvent("detail", k)),
                              !.inflight = r.inflight \cup {k}]]
        ELSE LET pa == processAgreements(v, r.detailedAgreements)
             IN  syncResume(s, [r EXCEPT !.i = k],
                            IF pa.threw THEN getAllAgreementsCatch(v) ELSE pa, t, failAt)

\* A loop that pushes the coarse record whatever the outcome.
pushed_AlwaysCoarse(basicAgreement, outcome) ==
    basicAgreement

\* What fetchAgreementDetails pushes for the answered request.
pushed(basicAgreement, outcome) ==
    IF outcome = "ok" THEN DetailOf(agreementIdOf(basicAgreement)) ELSE basicAgreement

\* ---------------------------------------------------------------- actions
Init ==
    /\ variant \in Variants
    /\ now = 0
    /\ svc = constructor(EmptySession, EmptyLocal)
    /\ inv = [p \in SyncIds |-> IdleInvocation]
    /\ xch = "idle"
    /\ quotaErrors = 0
    /\ calc = NoCalc

InFlight(p) == inv[p].pc \notin {"idle", "done"}
NoSyncInFlight == \A p \in SyncIds : ~InFlight(p)

\* An invocation record lives from the call of syncAgreements until the
\* caller has received the result; the next thing that happens on the page
\* finds the slot idle again.
settled == [p \in SyncIds |-> IF InFlight(p) THEN inv[p] ELSE IdleInvocation]

\* The clock advances.
Tick ==
    /\ now < MaxTime
    /\ now' = now + 1
    /\ inv' = settled
    /\ UNCHANGED <<variant, svc, xch, quotaErrors, calc>>

\* The page is loaded again: a new service object over the same storage;
\* whatever was running is gone.
Reload ==
    /\ svc' = constructor(svc.sessionStorage, svc.localStorage)
    /\ inv' = [p \in SyncIds |-> IdleInvocation]
    /\ xch' = "idle"
    /\ UNCHANGED <<variant, now, quotaErrors, calc>>

Disconnect ==
    /\ svc' = disconnect(svc)
    /\ inv' = [p \in SyncIds |-> IF InFlight(p) THEN [inv[p] EXCEPT !.disc = TRUE]
                                 ELSE IdleInvocation]
    /\ UNCHANGED <<variant, now, xch, quotaErrors, calc>>

\* initiateOAuthImplicit: stores the state and navigates away.
InitiateOAuthImplicit(state) ==
    /\ variant = "implicit"
    /\ svc' = constructor([svc.sessionStorage EXCEPT !.oauth_state = Some(state)],
                          svc.localStorage)
    /\ inv' = [p \in SyncIds |-> IdleInvocation]
    /\ UNCHANGED <<variant, now, xch, quotaErrors, calc>>

\* handleOAuthCallback, the path that stores the token: the hash carries
\* an access token and its state parameter is === the stored one, both
\* being null when the hash has no state and nothing is stored (the other
\* paths return success=false and change nothing).  The page handles the
\* redirect when it loads, before it starts a sync.
HandleOAuthCallback(accessToken, expiresIn, state) ==
    /\ variant = "implicit"
    /\ NoSyncInFlight
    /\ state = svc.sessionStorage.oauth_state
    /\ svc' = [svc EXCEPT !.accessToken = Some(accessToken),
                          !.sessionStorage.nav_token =
                              Some(tokenData(accessToken, Undefined, expiresIn, now)),
                          !.sessionStorage.oauth_state = None]
    /\ inv' = settled
    /\ UNCHANGED <<variant, now, xch, quotaErrors, calc>>

\* initiateOAuthPKCE: stores verifier and state and navigates away.
InitiateOAuthPKCE(state) ==
    /\ variant = "pkce"
    /\ svc' = constructor([svc.sessionStorage EXCEPT !.pkce_code_verifier = Some("verifier"),
                                                     !.oauth_state = Some(state)],
                          svc.localStorage)
    /\ inv' = [p \in SyncIds |-> IdleInvocation]
    /\ xch' = "idle"
    /\ UNCHANGED <<variant, now, quotaErrors, calc>>

\* exchangeCodeForTokenPKCE up to the token request (without a stored
\* verifier it returns success=false and changes nothing).  The page
\* exchanges the code when it loads, before it starts a sync.
ExchangeStart ==
    /\ variant = "pkce"
    /\ xch = "idle"
    /\ NoSyncInFlight
    /\ IsSome(svc.sessionStorage.pkce_code_verifier)
    /\ xch' = "token"
    /\ inv' = settled
    /\ UNCHANGED <<variant, now, svc, quotaErrors, calc>>

ExchangeTokenResp(ok, expiresIn) ==
    /\ xch = "token"
    /\ IF ok
       THEN /\ svc' = [setTokens(svc, "at1", "rt1", expiresIn, now)
                          EXCEPT !.sessionStorage.pkce_code_verifier = None,
                                 !.sessionStorage.oauth_state = None]
            /\ xch' = "userinfo"
       ELSE /\ svc' = svc
            /\ xch' = "idle"
    /\ UNCHANGED <<variant, now, inv, quotaErrors, calc>>

ExchangeUserInfoResp(ok) ==
    /\ xch = "userinfo"
    /\ svc' = IF ok THEN [svc EXCEPT !.accountId = Some("acct")] ELSE svc
    /\ xch' = "idle"
    /\ UNCHANGED <<variant, now, inv, quotaErrors, calc>>

\* An atomic run of invocation p ends in service state out.s and
\* invocation record out.r.
Becomes(p, out) ==
    /\ svc' = out.s
    /\ inv' = [inv EXCEPT ![p] = out.r]
    /\ quotaErrors' = IF out.r.result = Some(failureResult("QuotaExceededError", TRUE))
                         \/ out.r.result = Some(failureResult("QuotaExceededError", FALSE))
                      THEN quotaErrors + 1 ELSE quotaErrors
    /\ UNCHANGED <<variant, now, xch, calc>>

issue(r, pc, ev) == [r EXCEPT !.pc = pc, !.netlog = Append(r.netlog, netEvent(ev, 0))]

\* Implicit grant: syncAgreements from its call to the first await.
SyncStartImplicit(p) ==
    /\ variant = "implicit"
    /\ ~InFlight(p)
    /\ xch = "idle"
    /\ LET r0 == [startedInvocation(variant, svc, now)
                     EXCEPT !.stages = report(<<>>, "authenticating", 0)]
           auth == isAuthenticated(svc, now)
           r1 == [r0 EXCEPT !.stages = report(r0.stages, "fetching", 20)]
       IN  IF ~auth.ok THEN Becomes(p, syncCatch(auth.s, r0, "Not authenticated"))
           ELSE IF ~IsSome(auth.s.accountId)
                THEN Becomes(p, [s |-> auth.s, r |-> issue(r1, "userinfo", "userinfo")])
                ELSE Becomes(p, [s |-> auth.s, r |-> issue(r1, "list", "list")])

\* Implicit grant: getUserInfo's request completes.
UserInfoResp(p, ok, failAt) ==
    /\ inv[p].pc = "userinfo"
    /\ IF ok
       THEN Becomes(p, [s |-> [svc EXCEPT !.accountId = Some("acct")],
                        r |-> issue(inv[p], "list", "list")])
       ELSE Becomes(p, syncResume(svc, inv[p], getAllAgreementsCatch(variant), now, failAt))

\* The agreement-list request completes.
ListResp(p, outcome, body, failAt) ==
    /\ inv[p].pc = "list"
    /\ LET r == [inv[p] EXCEPT !.listOutcome = outcome]
       IN  IF outcome = "neterr" \/ (outcome = "notok" /\ variant = "pkce")
           THEN Becomes(p, syncResume(svc, r, getAllAgreementsCatch(variant), now, failAt))
           ELSE IF variant = "implicit"
           THEN IF outcome \in {"notok", "notarray"} \/ body = <<>>
                THEN Becomes(p, syncTail(svc, r, getSampleAgreements, now, failAt))
                ELSE Becomes(p, detailLoop(variant, svc, [r EXCEPT !.agreementsList = body],
                                           1, now, failAt))
           ELSE IF outcome = "notarray"
                THEN Becomes(p, syncResume(svc, r, getAllAgreementsCatch(variant), now, failAt))
                ELSE LET pa == processAgreements(variant, body)
                     IN  Becomes(p, syncResume(svc, [r EXCEPT !.agreementsList = body],
                                               IF pa.threw THEN getAllAgreementsCatch(variant)
                                               ELSE pa, now, failAt))

\* A detail request completes.
DetailResp(p, outcome, failAt) ==
    /\ inv[p].pc = "detail"
    /\ LET r == inv[p]
           r1 == [r EXCEPT !.detailedAgreements =
                               Append(@, pushed(r.agreementsList[r.i], outcome)),
                           !.inflight = @ \ {r.i},
                           !.outcomes = Append(@, [k |-> r.i, outcome |-> outcome])]
       IN  IF outcome = "throw"
           THEN Becomes(p, detailLoop(variant, svc, r1, r.i + 1, now, failAt))
           ELSE Becomes(p, [s |-> svc,
                            r |-> [r1 EXCEPT !.pc = "sleep",
                                             !.netlog = Append(@, netEvent("sleep", DetailDelayMs))]])

\* sleep(50) is over.
SleepDone(p, failAt) ==
    /\ inv[p].pc = "sleep"
    /\ Becomes(p, detailLoop(variant, svc, inv[p], inv[p].i + 1, now, failAt))

\* PKCE: getAllAgreements after the fetching stage was reported, up to its
\* first await or its failure in ensureValidToken.
pkceFetch(s, r, t, second) ==
    LET ens == ensureValidToken(s, t)
    IN  CASE ens.outcome = "throw" -> syncCatch(ens.s, r, "No valid authentication")
          [] ens.outcome = "refresh" /\ ~second -> [s |-> ens.s, r |-> issue(r, "refresh2", "refresh")]
          [] OTHER -> [s |-> ens.s, r |-> issue(r, "list", "list")]

\* PKCE: syncAgreements from its call to the first await.
SyncStartPKCE(p) ==
    /\ variant = "pkce"
    /\ ~InFlight(p)
    /\ xch = "idle"
    /\ LET r0 == [startedInvocation(variant, svc, now)
                     EXCEPT !.stages = report(<<>>, "authenticating", 0)]
           ens == ensureValidToken(svc, now)
           r1 == [r0 EXCEPT !.stages = report(r0.stages, "fetching", 20)]
       IN  CASE ens.outcome = "throw" ->
                  Becomes(p, syncCatch(ens.s, r0, "No valid authentication"))
             [] ens.outcome = "refresh" ->
                  Becomes(p, [s |-> ens.s, r |-> issue(r0, "refresh1", "refresh")])
             [] OTHER -> Becomes(p, pkceFetch(ens.s, r1, now, FALSE))

\* PKCE: the token-refresh request completes.
RefreshResp(p, ok, expiresIn) ==
    /\ inv[p].pc \in {"refresh1", "refresh2"}
    /\ LET s1 == IF ok THEN setTokens(svc, "at2", "rt2", expiresIn, now) ELSE svc
           r1 == [inv[p] EXCEPT !.refreshed = @ \/ ok]
       IN  IF inv[p].pc = "refresh1"
           THEN Becomes(p, pkceFetch(s1, [r1 EXCEPT !.stages = report(@, "fetching", 20)],
                                     now, FALSE))
           ELSE Becomes(p, [s |-> s1, r |-> issue(r1, "list", "list")])

SyncStep(p) ==
    \/ \E ok \in BOOLEAN, failAt \in StorageFailures : UserInfoResp(p, ok, failAt)
    \/ \E outcome \in ListOutcomes, failAt \in StorageFailures :
          \E body \in (IF outcome = "ok" THEN UpstreamLists ELSE {<<>>}) :
             ListResp(p, outcome, body, failAt)
    \/ \E outcome \in DetailOutcomes, failAt \in StorageFailures : DetailResp(p, outcome, failAt)
    \/ \E failAt \in StorageFailures : SleepDone(p, failAt)
    \/ \E ok \in BOOLEAN : \E expiresIn \in (IF ok THEN ExpiresIn ELSE {1}) :
          RefreshResp(p, ok, expiresIn)

Login ==
    \/ \E state \in OAuthStates : InitiateOAuthImplicit(state)
    \/ \E expiresIn \in ExpiresIn, state \in CallbackStates :
          HandleOAuthCallback("at1", expiresIn, state)
    \/ \E state \in OAuthStates : InitiateOAuthPKCE(state)
    \/ ExchangeStart
    \/ \E ok \in BOOLEAN : \E expiresIn \in (IF ok THEN ExpiresIn ELSE {1}) :
          ExchangeTokenResp(ok, expiresIn)
    \/ \E ok \in BOOLEAN : ExchangeUserInfoResp(ok)

Next ==
    \/ Tick
    \/ Reload
    \/ Disconnect
    \/ Login
    \/ \E p \in SyncIds : SyncStartImplicit(p) \/ SyncStartPKCE(p) \/ SyncStep(p)

Spec == Init /\ [][Next]_vars

\* ------------------------------------------------- one sync, with fairness
\* Situations a page can be in when a sync is requested: never connected;
\* connected at time 0 with a token of either lifetime; the same after a
\* page reload; and each of these with the result of an earlier sync at
\* time 0 cached and persisted (the demo dataset in the implicit-grant
\* service, one upstream record in the PKCE service).  The clock may since
\* have passed the token's lifetime.
connected(v, expiresIn) ==
    LET fresh == constructor(EmptySession, EmptyLocal)
    IN  IF v = "pkce" THEN setTokens(fresh, "at1", "rt1", expiresIn, 0)
        ELSE [fresh EXCEPT !.accessToken = Some("at1"),
                           !.sessionStorage.nav_token =
                               Some(tokenData("at1", Undefined, expiresIn, 0))]

synced(v, s) ==
    LET agreements == IF v = "pkce" THEN processAgreements(v, <<CoarseA>>).value
                      ELSE getSampleAgreements
    IN  cachingStage(s, agreements, detectConflicts(agreements), 0, 0).s

reloaded(s) == constructor(s.sessionStorage, s.localStorage)

StartStates(v) ==
    {constructor(EmptySession, EmptyLocal)}
        \cup UNION {{connected(v, e), reloaded(connected(v, e)),
                     synced(v, connected(v, e)), reloaded(synced(v, connected(v, e)))} :
                    e \in ExpiresIn}

FairInit ==
    /\ variant \in Variants
    /\ now \in 0..MaxTime
    /\ svc \in StartStates(variant)
    /\ inv = [p \in SyncIds |-> IdleInvocation]
    /\ xch = "idle"
    /\ quotaErrors = 0
    /\ calc = NoCalc

\* One invocation of syncAgreements per behaviour.
FirstSync(p) ==
    /\ inv[p].pc = "idle"
    /\ SyncStartImplicit(p) \/ SyncStartPKCE(p)

FairNext ==
    \/ Disconnect
    \/ \E p \in SyncIds : FirstSync(p) \/ SyncStep(p)

\* The network requests and timers a sync waits for are eventually
\* answered (fetch resolves or rejects, setTimeout fires).
FairSpec == FairInit /\ [][FairNext]_vars /\ \A p \in SyncIds : WF_vars(SyncStep(p))

\* ------------------------------------------------------ claim vocabulary
StageOrder == <<"authenticating", "fetching", "processing", "caching", "complete">>

IsPrefix(s, t) == Len(s) <= Len(t) /\ \A k \in 1..Len(s) : s[k] = t[k]

stageNames(p) == [k \in 1..Len(inv[p].stages) |-> inv[p].stages[k].stage]

Reported(p, stage) == \E k \in 1..Len(inv[p].stages) : inv[p].stages[k].stage = stage
Requested(p, ev) == \E k \in 1..Len(inv[p].netlog) : inv[p].netlog[k].ev = ev

Returned(p) == inv[p].pc = "done"
Succeeded(p) == Returned(p) /\ Val(inv[p].result).success
Failed(p) == Returned(p) /\ ~Val(inv[p].result).success

ListFetchFailed(p) == inv[p].listOutcome \in {"neterr", "notok"}

\* The cache, the timestamp and the persisted copy all hold what the
\* cycle of invocation p computed.
AllFromCycle(p) ==
    /\ IsSome(inv[p].cycle)
    /\ LET c == Val(inv[p].cycle)
       IN  /\ svc.cache.agreements = Some(c.agreements)
           /\ svc.cache.conflicts = Some(c.conflicts)
           /\ svc.lastSyncTime = Some(c.time)
           /\ svc.localStorage.nav_agreements = Some(stringifyAgreements(c.agreements))
           /\ svc.localStorage.nav_conflicts = Some(stringifyConflicts(c.conflicts))
           /\ svc.localStorage.nav_last_sync = Some(c.time)

\* ---------------------------------------------------------------- claims

\* C1: in one sync invocation the stages reported to the observer are a
\* prefix of authenticating, fetching, processing, caching, complete, in
\* that order, optionally followed by one error report; no stage is
\* reported twice, none is skipped, and complete is never followed by error.
C1_StagesInOrder ==
    \A p \in SyncIds :
        LET names == stageNames(p)
            n == Len(names)
        IN  \/ IsPrefix(names, StageOrder)
            \/ /\ n >= 2
               /\ names[n] = "error"
               /\ IsPrefix(SubSeq(names, 1, n - 1), StageOrder)
               /\ n - 1 < Len(StageOrder)

\* A sync that failed in the caching stage: four stages, then error.
C1_Witness ==
    \E p \in SyncIds :
        /\ Returned(p)
        /\ stageNames(p) = <<"authenticating", "fetching", "processing", "caching", "error">>

\* C2: with no valid credential at the start of a sync (none at all, or an
\* expired one that no refresh replaces), the sync never reports the
\* fetching stage, never issues the agreement-list request, and returns
\* success=false after reporting error.
C2_FailsFastWithoutCredential ==
    \A p \in SyncIds :
        (inv[p].pc # "idle" /\ inv[p].cred # "valid" /\ ~inv[p].refreshed)
            => /\ ~Reported(p, "fetching")
               /\ ~Requested(p, "list")
               /\ Returned(p) => (Failed(p) /\ Reported(p, "error"))

C4_WholeSetSwap ==
    \A p \in SyncIds :
        Succeeded(p) =>
            /\ IsSome(inv[p].cycle)
            /\ LET agreements == Val(inv[p].cycle).agreements
                   conflicts == conflictsFrom(agreements, 1, 2)
               IN  /\ svc.cache.agreements = Some(agreements)
                   /\ svc.cache.conflicts = Some(conflicts)
                   /\ svc.localStorage.nav_agreements = Some(stringifyAgreements(agreements))
                   /\ svc.localStorage.nav_conflicts = Some(stringifyConflicts(conflicts))
                   /\ getCachedAgreements(svc) = agreements
                   /\ getCachedConflicts(svc) = conflicts
                   /\ Val(inv[p].result).count = Len(agreements)
                   /\ Val(inv[p].result).conflicts = Len(conflicts)

\* A successful sync that replaced the different result of an earlier
\* cycle, conflicts included.
C4_Witness ==
    \E p \in SyncIds :
        /\ Succeeded(p)
        /\ IsSome(inv[p].pre.cache.agreements)
        /\ IsSome(inv[p].pre.localStorage.nav_agreements)
        /\ inv[p].pre.cache.agreements # svc.cache.agreements
        /\ IsSome(inv[p].pre.cache.conflicts)
        /\ Val(inv[p].pre.cache.conflicts) # <<>>
        /\ svc.cache.conflicts = Some(<<>>)

\* C5: whenever a sync returns (no disconnect having been requested
\* meanwhile), cache, conflicts and timestamp, in memory and persisted, are
\* either all from this cycle or all as they were when the sync began.
C5_NoPartialCommit ==
    \A p \in SyncIds :
        (Returned(p) /\ ~inv[p].disc)
            => (AllFromCycle(p) \/ snapshot(svc) = inv[p].pre)

\* C6: a sync that fails while persisted agreements exist (and no
\* disconnect was requested) returns usingCache=true and leaves the
\* persisted agreements, conflicts and timestamp unchanged.
C6_FailedSyncKeepsPersistedResult ==
    \A p \in SyncIds :
        (Failed(p) /\ ~inv[p].disc /\ IsSome(inv[p].pre.localStorage.nav_agreements))
            => /\ Val(inv[p].result).usingCache
               /\ svc.localStorage = inv[p].pre.localStorage

detailRequests(p) ==
    LET log == SelectSeq(inv[p].netlog, LAMBDA e : e.ev = "detail")
    IN  [k \in 1..Len(log) |-> log[k].k]

\* C8: during one sync at most one detail request is in flight, and the
\* requests are issued in list order, request k+1 only after request k has
\* completed or failed.
C8_DetailRequestsSequential ==
    \A p \in SyncIds :
        LET reqs == detailRequests(p)
            answered == Len(inv[p].outcomes)
        IN  /\ Cardinality(inv[p].inflight) <= 1
            /\ \A a, b \in 1..Len(reqs) : a < b => reqs[a] < reqs[b]
            /\ Len(reqs) = answered + Cardinality(inv[p].inflight)
            /\ \A a \in 1..answered : inv[p].outcomes[a].k = reqs[a]
            /\ inv[p].inflight # {} => inv[p].inflight = {reqs[Len(reqs)]}

\* The second detail request is in flight after the first was answered.
C8_Witness ==
    \E p \in SyncIds :
        /\ inv[p].pc = "detail"
        /\ Len(inv[p].outcomes) = 1
        /\ inv[p].inflight = {2}

\* C9: between any two consecutive detail requests the inter-request delay
\* elapses, whatever the outcome of the earlier request.
C9_DelayBetweenDetailRequests ==
    \A p \in SyncIds :
        \A a, b \in 1..Len(inv[p].netlog) :
            (a < b /\ inv[p].netlog[a].ev = "detail" /\ inv[p].netlog[b].ev = "detail")
                => \E c \in (a + 1)..(b - 1) :
                      inv[p].netlog[c] = netEvent("sleep", DetailDelayMs)

\* The record normalization receives for list entry k: the detailed record
\* when its detail fetch succeeded, otherwise the coarse record.
expectedEntry(p, k) ==
    LET basic == inv[p].agreementsList[k]
        ok == \E a \in 1..Len(inv[p].outcomes) :
                 inv[p].outcomes[a].k = k /\ inv[p].outcomes[a].outcome = "ok"
    IN  IF ok THEN DetailOf(IF basic.id # Undefined THEN basic.id ELSE basic.agreementId)
        ELSE basic

HasId(basic) == basic.id # Undefined \/ basic.agreementId # Undefined

\* The detail loop of invocation p has run to its end.
DetailLoopDone(p) ==
    /\ variant = "implicit"
    /\ Returned(p)
    /\ inv[p].agreementsList # <<>>

\* C10 as claimed: every coarse record of the fetched list appears in the
\* processed set exactly once and in list order, detailed or coarse, and
\* the sync does not fail.
C10_EveryCoarseRecordProcessed ==
    \A p \in SyncIds :
        DetailLoopDone(p) =>
            /\ Val(inv[p].result).error # "getAllAgreements"
            /\ IsSome(inv[p].cycle)
            /\ LET list == inv[p].agreementsList
               IN  Val(inv[p].cycle).agreements =
                       [k \in 1..Len(list) |-> processed("implicit", expectedEntry(p, k))]

\* C10 amended: detail-fetch failures never fail the sync, and every coarse
\* record of the fetched list that has an id or agreementId is handed to
\* normalization exactly once and in list order, as its detailed record
\* when its detail fetch succeeded and as the coarse record otherwise;
\* coarse records with neither id are skipped.  The processed set is the
\* normalization of these records, or the demo dataset when one of them
\* does not normalize.
C10_RecordsWithIdKeptInOrder ==
    \A p \in SyncIds :
        DetailLoopDone(p) =>
            /\ Val(inv[p].result).error # "getAllAgreements"
            /\ IsSome(inv[p].cycle)
            /\ LET list == inv[p].agreementsList
                   kept == SelectSeq([k \in 1..Len(list) |-> k], LAMBDA k : HasId(list[k]))
                   handed == [j \in 1..Len(kept) |-> expectedEntry(p, kept[j])]
                   normal == \A j \in 1..Len(handed) :
                                ValidDate(OrElse(handed[j].cfExpiration, "calc-date"))
               IN  /\ inv[p].detailedAgreements = handed
                   /\ Len(inv[p].outcomes) = Len(kept)
                   /\ Val(inv[p].cycle).agreements =
                         IF normal THEN [j \in 1..Len(handed) |-> processed("implicit", handed[j])]
                         ELSE getSampleAgreements

\* A sync over a two-record list whose first detail fetch failed and whose
\* second succeeded: coarse record first, detailed record second.
C10_Witness ==
    \E p \in SyncIds :
        /\ DetailLoopDone(p)
        /\ Succeeded(p)
        /\ Len(inv[p].outcomes) = 2
        /\ inv[p].outcomes[1].outcome # "ok"
        /\ inv[p].outcomes[2].outcome = "ok"
        /\ Len(Val(inv[p].cycle).agreements) = 2
        /\ Val(inv[p].cycle).agreements[1].title = "A1 (list)"
        /\ Val(inv[p].cycle).agreements[2].title = "D4"

\* ------------------------------------------------------------------ dates
\* A calendar date, as the text "YYYY-MM-DD" reads.
\* const x = value; ... : what F gives for the value, which is computed once.
With(value, F(_)) == CHOOSE result \in {F(x) : x \in {value}} : TRUE

Civil(y, m, d) == [y |-> y, m |-> m, d |-> d]

\* Day number of a calendar date, counted from 1970-01-01 (ECMAScript
\* MakeDay).  The day of the month may lie outside the month, as setDate and
\* setFullYear pass it: the date then runs over into the neighbouring months.
MakeDay(y, m, d) ==
    LET yy == IF m <= 2 THEN y - 1 ELSE y
        era == yy \div 400
        yoe == yy - era * 400
        mp == IF m > 2 THEN m - 3 ELSE m + 9
        doy == (153 * mp + 2) \div 5
        doe == yoe * 365 + yoe \div 4 - yoe \div 100 + doy
    IN  era * 146097 + doe - 719468 + (d - 1)

\* The calendar date of a day number (ECMAScript YearFromTime,
\* MonthFromTime, DateFromTime).
CivilFromDays(n) ==
    LET z == n + 719468
        era == z \div 146097
        doe == z - era * 146097
        yoe == (doe - doe \div 1460 + doe \div 36524 - doe \div 146096) \div 365
        doy == doe - (365 * yoe + yoe \div 4 - yoe \div 100)
        mp == (5 * doy + 2) \div 153
        d == doy - (153 * mp + 2) \div 5 + 1
        m == IF mp < 10 THEN mp + 3 ELSE mp - 9
    IN  Civil(IF m <= 2 THEN yoe + era * 400 + 1 ELSE yoe + era * 400, m, d)

\* Time values are counted in hours since 1970-01-01T00:00Z.
HoursPerDay == 24

\* A Date object: a time value, or Invalid Date.
DateAt(t) == [valid |-> TRUE, t |-> t]
InvalidDate == [valid |-> FALSE, t |-> 0]

\* The browser's time zone: UTC, Europe/Berlin, America/New_York.
Zones == {"UTC", "Berlin", "NewYork"}

\* Offset of local time from UTC at an instant, in hours.  Daylight saving
\* time is taken to hold from April to October (the real switch days lie
\* in the last week of March/October and the second week of March/first
\* of November).
LocalTZA(zone, t) ==
    LET month == CivilFromDays(t \div HoursPerDay).m
        summer == month >= 4 /\ month <= 10
    IN  CASE zone = "Berlin" -> IF summer THEN 2 ELSE 1
          [] zone = "NewYork" -> IF summer THEN -4 ELSE -5
          [] OTHER -> 0

LocalTime(zone, t) == With(t, LAMBDA utc : utc + LocalTZA(zone, utc))
UTCOf(zone, local) == With(local, LAMBDA wall : wall - LocalTZA(zone, wall))

\* ceil(a / b) for b > 0.
CeilDiv(a, b) == -((-a) \div b)

\* new Date("YYYY-MM-DD"): midnight UTC of that date.
dateOfCivil(c) == DateAt(MakeDay(c.y, c.m, c.d) * HoursPerDay)

\* date.toISOString().split('T')[0]: the UTC calendar date.
isoDay(date) == CivilFromDays(date.t \div HoursPerDay)

\* date.setDate(date.getDate() + delta), in local time.
addLocalDays(zone, date, delta) ==
    With(LocalTime(zone, date.t),
         LAMBDA local :
             With(CivilFromDays(local \div HoursPerDay),
                  LAMBDA c :
                      DateAt(UTCOf(zone, MakeDay(c.y, c.m, c.d + delta) * HoursPerDay
                                         + (local % HoursPerDay)))))

\* date.setFullYear(date.getFullYear() + years), in local time.
addLocalYears(zone, date, years) ==
    With(LocalTime(zone, date.t),
         LAMBDA local :
             With(CivilFromDays(local \div HoursPerDay),
                  LAMBDA c :
                      DateAt(UTCOf(zone, MakeDay(c.y + years, c.m, c.d) * HoursPerDay
                                         + (local % HoursPerDay)))))

\* ------------------------------------------------------ JavaScript values
\* Values of the fields of a raw agreement, tagged with their type.  A
\* string that reads as a calendar date carries the date; other strings
\* carry their text.
JsUndefined == [t |-> "undefined"]
JsNull == [t |-> "null"]
JsNaN == [t |-> "NaN"]
Num(n) == [t |-> "number", v |-> n]
Str(s) == [t |-> "string", v |-> s]
IsoText(y, m, d) == [t |-> "isodate", v |-> Civil(y, m, d)]
Arr(seq) == [t |-> "array", v |-> seq]
\* An entry {year, amount} of annualMinimums.
Commitment(year, amount) == [t |-> "object", year |-> year, amount |-> amount]

IsString(x) == x.t \in {"string", "isodate"}

\* ToBoolean.
Truthy(x) ==
    CASE x.t \in {"undefined", "null", "NaN"} -> FALSE
      [] x.t = "string" -> x.v # ""
      [] x.t = "number" -> x.v # 0
      [] OTHER -> TRUE

\* a || b.
Or(a, b) == With(a, LAMBDA x : IF Truthy(x) THEN x ELSE b)

\* The number a text starts with, for the texts that start with one.
NumberTexts == [text \in {"0", "31", "120", "3 years"} |->
                   CASE text = "0" -> 0
                     [] text = "31" -> 31
                     [] text = "120" -> 120
                     [] OTHER -> 3]

\* parseFloat(value) and parseInt(value), on integers and texts.
parseFloat(value) ==
    CASE value.t = "number" -> value
      [] value.t = "string" /\ value.v \in DOMAIN NumberTexts -> Num(NumberTexts[value.v])
      [] value.t = "isodate" -> Num(value.v.y)
      [] OTHER -> JsNaN

\* JSON.parse(text): the value, or a SyntaxError.
JsonTexts == {"[]", "[{\"year\":2024,\"amount\":100}]", "{\"year\":2024}", "null", "5",
              "[null]", "[\"Germany\",\"Austria\"]", "{\"year\":2024,\"amount\":100}", " 5 "}
JSONparse(value) ==
    IF value.t = "string" /\ value.v \in JsonTexts
    THEN [threw |-> FALSE,
          value |-> CASE value.v = "[]" -> Arr(<<>>)
                      [] value.v = "[{\"year\":2024,\"amount\":100}]" -> Arr(<<Commitment(2024, 100)>>)
                      [] value.v = "{\"year\":2024}" -> Commitment(2024, 0)
                      [] value.v = "null" -> JsNull
                      [] value.v \in {"5", " 5 "} -> Num(5)
                      [] value.v = "{\"year\":2024,\"amount\":100}" -> Commitment(2024, 100)
                      [] value.v = "[null]" -> Arr(<<JsNull>>)
                      [] OTHER -> Arr(<<Str("Germany"), Str("Austria")>>)]
    ELSE [threw |-> TRUE, value |-> JsUndefined]

\* The characters value.split(/[,;|]/) cuts at; the PKCE service's pattern
\* is /[,;]/.
Delimiters(v) == IF v = "implicit" THEN {",", ";", "|"} ELSE {",", ";"}

\* text.split(pattern): the pieces between the delimiters, the piece that
\* is being read being "piece".
RECURSIVE pieces(_, _, _)
pieces(text, delimiters, piece) ==
    IF text = "" THEN <<piece>>
    ELSE With(Tail(text),
              LAMBDA rest :
                  IF Head(text) \in delimiters THEN <<piece>> \o pieces(rest, delimiters, "")
                  ELSE With(piece \o Head(text),
                            LAMBDA longer : pieces(rest, delimiters, longer)))

\* text.trim(), for texts whose only white space is the blank.
RECURSIVE trim(_)
trim(text) ==
    IF text = "" THEN text
    ELSE IF Head(text) = " " THEN With(Tail(text), trim)
    ELSE IF SubSeq(text, Len(text), Len(text)) = " "
    THEN With(SubSeq(text, 1, Len(text) - 1), trim)
    ELSE text

\* value.split(pattern).map(v => v.trim()).filter(Boolean).  The text of a
\* calendar date holds no delimiter and no blank.
split(v, value) ==
    IF value.t = "isodate" THEN <<value>>
    ELSE With(pieces(value.v, Delimiters(v), ""),
              LAMBDA cut :
                  With([k \in 1..Len(cut) |-> trim(cut[k])],
                       LAMBDA trimmed :
                           With(SelectSeq(trimmed, LAMBDA piece : piece # ""),
                                LAMBDA kept : [k \in 1..Len(kept) |-> Str(kept[k])])))

\* new Date(value).  Of the texts, only calendar dates parse.
newDate(value) ==
    CASE value.t = "isodate" -> dateOfCivil(value.v)
      [] value.t = "null" -> DateAt(0)
      [] value.t = "number" -> DateAt(value.v \div 3600000)
      [] OTHER -> InvalidDate

\* ------------------------------------------------- normalizer, in detail
parseMultiValue(v, value) ==
    IF value.t = "array" THEN value
    ELSE IF IsString(value) /\ (v = "pkce" \/ Truthy(value))
    THEN LET parsed == JSONparse(value)
         IN  IF parsed.threw THEN Arr(split(v, value))
             ELSE IF parsed.value.t = "array" THEN parsed.value
             ELSE Arr(<<value>>)
    ELSE Arr(<<>>)

parseNumber(value) ==
    IF value.t \in {"null", "undefined"} \/ (value.t = "string" /\ value.v = "")
    THEN JsNull
    ELSE LET num == parseFloat(value)
         IN  IF num.t = "NaN" THEN JsNull ELSE num

parseAnnualMinimums(v, value) ==
    IF value.t = "array" THEN value
    ELSE IF IsString(value) /\ (v = "pkce" \/ Truthy(value))
    THEN LET parsed == JSONparse(value)
         IN  IF parsed.threw THEN Arr(<<>>) ELSE parsed.value
    ELSE Arr(<<>>)

\* A result: a returned value, or an exception.
Returns(value) == [threw |-> FALSE, value |-> value]
Throws == [threw |-> TRUE, value |-> JsUndefined]

\* The text toISOString().split('T')[0] gives for a valid Date.
isoText(date) == [t |-> "isodate", v |-> isoDay(date)]

\* calculateExpirationDate(agreement), in time zone "zone" at instant t.
\* toISOString raises a RangeError on an Invalid Date.
calculateExpirationDateAt(zone, t, agreement) ==
    IF Truthy(agreement.effectiveDate) /\ Truthy(agreement.termLength)
    THEN LET effective == newDate(agreement.effectiveDate)
             parsed == parseFloat(agreement.termLength)
             years == IF Truthy(parsed) THEN parsed.v ELSE 1
         IN  IF effective.valid
             THEN Returns(isoText(addLocalYears(zone, effective, years)))
             ELSE Throws
    ELSE Returns(isoText(addLocalYears(zone, DateAt(t), 1)))

\* A risk score in which the deadline rule adds 3 over the whole 1..90 range.
calculateRiskScore_DeadlineAlwaysThree(agreement) ==
    LET performance ==
            IF agreement.currentPerformance.v < agreement.minimumPerformanceThreshold.v THEN 3
            ELSE IF agreement.currentPerformance.v < agreement.minimumPerformanceThreshold.v + 5
            THEN 1 ELSE 0
        deadline ==
            IF agreement.daysUntilDeadline <= 90 /\ agreement.daysUntilDeadline > 0 THEN 3 ELSE 0
        conditional ==
            IF agreement.exclusivityStatus = Str("Conditional Exclusive")
               /\ agreement.currentPerformance.v < 90
            THEN 2 ELSE 0
        riskPoints == performance + deadline + conditional
    IN  IF riskPoints >= 5 THEN "High"
        ELSE IF riskPoints >= 2 THEN "Medium"
        ELSE "Low"

\* calculateRiskScore(agreement).
calculateRiskScore(agreement) ==
    LET performance ==
            IF agreement.currentPerformance.v < agreement.minimumPerformanceThreshold.v THEN 3
            ELSE IF agreement.currentPerformance.v < agreement.minimumPerformanceThreshold.v + 5
            THEN 1 ELSE 0
        deadline ==
            IF agreement.daysUntilDeadline <= 30 /\ agreement.daysUntilDeadline > 0 THEN 3
            ELSE IF agreement.daysUntilDeadline <= 90 /\ agreement.daysUntilDeadline > 0
            THEN 1 ELSE 0
        conditional ==
            IF agreement.exclusivityStatus = Str("Conditional Exclusive")
               /\ agreement.currentPerformance.v < 90
            THEN 2 ELSE 0
        riskPoints == performance + deadline + conditional
    IN  IF riskPoints >= 5 THEN "High"
        ELSE IF riskPoints >= 2 THEN "Medium"
        ELSE "Low"

\* agreement.annualMinimums.find(m => m.year === currentYear) from entry k
\* on: the entry found (undefined if none), or a TypeError on an entry
\* that is null or undefined.
RECURSIVE find(_, _, _)
find(entries, k, currentYear) ==
    IF k > Len(entries) THEN Returns(JsUndefined)
    ELSE IF entries[k].t \in {"null", "undefined"} THEN Throws
    ELSE IF entries[k].t = "object" /\ entries[k].year = currentYear THEN Returns(entries[k])
    ELSE find(entries, k + 1, currentYear)

\* An urgency whose Urgent band stops short of day 30.
renewalUrgency_UrgentBelow30(daysUntilDeadline) ==
    IF daysUntilDeadline < 30 /\ daysUntilDeadline > 0 THEN "Urgent"
    ELSE IF daysUntilDeadline <= 90 /\ daysUntilDeadline > 0 THEN "Warning"
    ELSE "On Track"

\* The renewalUrgency calculateDerivedFields assigns for a daysUntilDeadline.
renewalUrgency(daysUntilDeadline) ==
    IF daysUntilDeadline <= 30 /\ daysUntilDeadline > 0 THEN "Urgent"
    ELSE IF daysUntilDeadline <= 90 /\ daysUntilDeadline > 0 THEN "Warning"
    ELSE "On Track"

\* The fields calculateDerivedFields adds; not yet set on a record it has
\* not been through.
Underived ==
    [nonRenewalDeadline |-> JsUndefined, daysUntilExpiration |-> 0, daysUntilDeadline |-> 0,
     renewalUrgency |-> JsUndefined, currentYearCommitment |-> 0, aiRiskScore |-> JsUndefined]

\* calculateDerivedFields(agreement), in time zone "zone" at instant t.
\* It raises a RangeError when the deadline is an Invalid Date and a
\* TypeError when annualMinimums has no find method.
calculateDerivedFields(zone, t, agreement) ==
    LET expirationDate == newDate(agreement.expirationDate)
        deadline ==
            IF expirationDate.valid
            THEN addLocalDays(zone, expirationDate, -agreement.nonRenewalNoticeDays.v)
            ELSE InvalidDate
        daysUntilExpiration == CeilDiv(expirationDate.t - t, HoursPerDay)
        currentYear == CivilFromDays(LocalTime(zone, t) \div HoursPerDay).y
        yearCommitment ==
            IF agreement.annualMinimums.t = "array"
            THEN find(agreement.annualMinimums.v, 1, currentYear)
            ELSE Throws
        dates(nonRenewalDeadline) ==
            [agreement EXCEPT
                 !.nonRenewalDeadline = isoText(nonRenewalDeadline),
                 !.daysUntilExpiration = daysUntilExpiration,
                 !.daysUntilDeadline = CeilDiv(nonRenewalDeadline.t - t, HoursPerDay)]
        rest(dated) ==
            With([dated EXCEPT !.renewalUrgency = Str(renewalUrgency(dated.daysUntilDeadline))],
                 LAMBDA rated :
                     [rated EXCEPT
                          !.currentYearCommitment =
                              IF yearCommitment.value.t = "object"
                                 /\ yearCommitment.value.amount # 0
                              THEN yearCommitment.value.amount ELSE 0,
                          !.aiRiskScore = Str(calculateRiskScore(rated))])
    IN  With(deadline,
             LAMBDA nonRenewalDeadline :
                 IF ~nonRenewalDeadline.valid \/ yearCommitment.threw THEN Throws
                 ELSE Returns(With(dates(nonRenewalDeadline), rest)))

\* A raw agreement: the keys of the record and of its customFields (cf_)
\* that decide dates, notice period, minimums, performance, exclusivity,
\* territories and products.  A missing key, and every key of a missing
\* customFields, reads as undefined.
RawKeys == {"expirationDate", "effectiveDate", "executionDate", "termLength",
            "cf_expirationDate", "cf_effectiveDate", "cf_initialTermLength", "cf_termLength",
            "cf_territoryCountries", "cf_territories", "cf_territory",
            "cf_productCategories", "cf_products", "cf_product",
            "cf_exclusivityStatus", "cf_exclusivity",
            "cf_annualMinimums", "cf_minimums",
            "cf_minimumPerformanceThreshold", "cf_performanceThreshold",
            "cf_currentPerformance", "cf_performance",
            "cf_nonRenewalNoticeDays", "cf_noticeDays"}

BlankAgreement == [key \in RawKeys |-> JsUndefined]

\* The object literal processAgreement builds (before the derived fields),
\* or the exception calculateExpirationDate raises.
canonical(v, zone, t, agreement) ==
    LET given == Or(agreement.cf_expirationDate, agreement.expirationDate)
        fallback == calculateExpirationDateAt(zone, t, agreement)
        expirationDate ==
            IF v = "pkce" \/ Truthy(given) THEN Returns(given) ELSE fallback
        alt(a, b) == IF v = "pkce" THEN a ELSE Or(a, b)
        number(value, default) == Or(parseNumber(value), Num(default))
    IN  IF expirationDate.threw THEN Throws
        ELSE Returns(
            [effectiveDate |->
                 IF v = "pkce" THEN Or(agreement.cf_effectiveDate, agreement.effectiveDate)
                 ELSE Or(agreement.cf_effectiveDate,
                         Or(agreement.effectiveDate, agreement.executionDate)),
             expirationDate |-> expirationDate.value,
             initialTermLength |->
                 Or(alt(agreement.cf_initialTermLength, agreement.cf_termLength), Str("")),
             territoryCountries |->
                 parseMultiValue(v, alt(agreement.cf_territoryCountries,
                                        Or(agreement.cf_territories, agreement.cf_territory))),
             productCategories |->
                 parseMultiValue(v, alt(agreement.cf_productCategories,
                                        Or(agreement.cf_products, agreement.cf_product))),
             exclusivityStatus |->
                 Or(alt(agreement.cf_exclusivityStatus, agreement.cf_exclusivity),
                    Str("Non-Exclusive")),
             annualMinimums |->
                 parseAnnualMinimums(v, alt(agreement.cf_annualMinimums, agreement.cf_minimums)),
             minimumPerformanceThreshold |->
                 number(alt(agreement.cf_minimumPerformanceThreshold,
                            agreement.cf_performanceThreshold), 85),
             currentPerformance |->
                 number(alt(agreement.cf_currentPerformance, agreement.cf_performance), 0),
             nonRenewalNoticeDays |->
                 number(alt(agreement.cf_nonRenewalNoticeDays, agreement.cf_noticeDays), 90),
             nonRenewalDeadline |-> Underived.nonRenewalDeadline,
             daysUntilExpiration |-> Underived.daysUntilExpiration,
             daysUntilDeadline |-> Underived.daysUntilDeadline,
             renewalUrgency |-> Underived.renewalUrgency,
             currentYearCommitment |-> Underived.currentYearCommitment,
             aiRiskScore |-> Underived.aiRiskScore])

\* normalize: processAgreement, which ends in calculateDerivedFields.
normalize(v, zone, t, agreement) ==
    With(canonical(v, zone, t, agreement),
         LAMBDA built :
             IF built.threw THEN Throws ELSE calculateDerivedFields(zone, t, built.value))

\* The literal records of getSampleAgreements, with the fields above.
SampleRecord(effective, expiration, term, territories, products, exclusivity, minimums, threshold, performance, notice) ==
    [effectiveDate |-> effective, expirationDate |-> expiration,
     initialTermLength |-> Str(term),
     territoryCountries |-> Arr([k \in 1..Len(territories) |-> Str(territories[k])]),
     productCategories |-> Arr([k \in 1..Len(products) |-> Str(products[k])]),
     exclusivityStatus |-> Str(exclusivity),
     annualMinimums |-> Arr(minimums),
     minimumPerformanceThreshold |-> Num(threshold), currentPerformance |-> Num(performance),
     nonRenewalNoticeDays |-> Num(notice),
     nonRenewalDeadline |-> Underived.nonRenewalDeadline,
     daysUntilExpiration |-> Underived.daysUntilExpiration,
     daysUntilDeadline |-> Underived.daysUntilDeadline,
     renewalUrgency |-> Underived.renewalUrgency,
     currentYearCommitment |-> Underived.currentYearCommitment,
     aiRiskScore |-> Underived.aiRiskScore]

sampleData ==
    << SampleRecord(IsoText(2024, 2, 1), IsoText(2027, 1, 31), "3 years",
                    getSampleAgreements[1].territoryCountries,
                    getSampleAgreements[1].productCategories, "Exclusive",
                    <<Commitment(2024, 2000000), Commitment(2025, 2500000),
                      Commitment(2026, 3000000)>>, 85, 92, 90),
       SampleRecord(IsoText(2023, 7, 1), IsoText(2025, 6, 30), "2 years",
                    getSampleAgreements[2].territoryCountries,
                    getSampleAgreements[2].productCategories, "Conditional Exclusive",
                    <<Commitment(2023, 800000), Commitment(2024, 1000000),
                      Commitment(2025, 1200000)>>, 85, 78, 90),
       SampleRecord(IsoText(2024, 10, 1), IsoText(2028, 9, 30), "4 years",
                    getSampleAgreements[3].territoryCountries,
                    getSampleAgreements[3].productCategories, "Exclusive",
                    <<Commitment(2024, 500000000), Commitment(2025, 600000000),
                      Commitment(2026, 700000000), Commitment(2027, 800000000)>>, 90, 95, 120),
       SampleRecord(IsoText(2023, 4, 1), IsoText(2025, 3, 31), "2 years",
                    getSampleAgreements[4].territoryCountries,
                    getSampleAgreements[4].productCategories, "Non-Exclusive",
                    <<Commitment(2023, 3000000), Commitment(2024, 3500000),
                      Commitment(2025, 4000000)>>, 80, 65, 60),
       SampleRecord(IsoText(2024, 12, 1), IsoText(2027, 11, 30), "3 years",
                    getSampleAgreements[5].territoryCountries,
                    getSampleAgreements[5].productCategories, "Exclusive",
                    <<Commitment(2024, 3000000), Commitment(2025, 4000000),
                      Commitment(2026, 5000000)>>, 85, 88, 90) >>

\* sampleData.map(agreement => this.calculateDerivedFields(agreement)).
getSampleAgreementsAt(zone, t) ==
    With([k \in 1..Len(sampleData) |->
              With(sampleData[k], LAMBDA agreement : calculateDerivedFields(zone, t, agreement))],
         LAMBDA derived :
             IF \E k \in 1..Len(derived) : derived[k].threw THEN Throws
             ELSE Returns([k \in 1..Len(derived) |-> derived[k].value]))

\* ------------------------------------------------ normalize, on its own
\* Raw agreements: every combination of one choice per group of keys.
NoKeys == [key \in {} |-> JsUndefined]

ExpirationChoices ==
    {NoKeys,
     "cf_expirationDate" :> IsoText(2025, 1, 15),
     "expirationDate" :> IsoText(2025, 6, 30),
     "expirationDate" :> JsNull,
     "cf_expirationDate" :> Str("TBD")}

TermChoices ==
    {NoKeys,
     ("effectiveDate" :> IsoText(2024, 2, 29)) @@ ("termLength" :> Str("3 years")),
     ("cf_effectiveDate" :> IsoText(2024, 2, 1)) @@ ("cf_initialTermLength" :> Str("3 years")),
     ("effectiveDate" :> IsoText(2024, 2, 1)) @@ ("termLength" :> Str("TBD")),
     ("effectiveDate" :> Str("TBD")) @@ ("termLength" :> Num(2))}

NoticeChoices ==
    {NoKeys,
     "cf_nonRenewalNoticeDays" :> Num(31),
     "cf_nonRenewalNoticeDays" :> Str("120"),
     "cf_noticeDays" :> Num(0),
     ("cf_nonRenewalNoticeDays" :> Num(0)) @@ ("cf_noticeDays" :> Num(31))}

MinimumsChoices ==
    {NoKeys,
     "cf_annualMinimums" :> Arr(<<Commitment(2023, 50), Commitment(2024, 100)>>),
     "cf_annualMinimums" :> Str("{\"year\":2024}"),
     "cf_minimums" :> Str("[null]")}

PerformanceChoices ==
    {NoKeys,
     ("cf_currentPerformance" :> Str("78 %"))
         @@ ("cf_exclusivityStatus" :> Str("Conditional Exclusive"))}

TerritoryChoices ==
    {NoKeys,
     "cf_territoryCountries" :> Str("Germany, Austria"),
     "cf_territoryCountries" :> Str("5")}

RawAgreements ==
    {e @@ tm @@ n @@ m @@ pf @@ tr @@ BlankAgreement :
        e \in ExpirationChoices, tm \in TermChoices, n \in NoticeChoices,
        m \in MinimumsChoices, pf \in PerformanceChoices, tr \in TerritoryChoices}

\* Evaluation instants around 2024-12-15T00:00Z, the deadline of an
\* agreement that expires on 2025-01-15 with 31 days of notice.
Instants ==
    LET deadline == MakeDay(2024, 12, 15) * HoursPerDay
    IN  {deadline + 48, deadline + 1, deadline, deadline - 1,
         deadline - 30 * HoursPerDay, deadline - 30 * HoursPerDay - 1,
         deadline - 90 * HoursPerDay, deadline - 90 * HoursPerDay - 1}

\* No sync runs while a pure function is followed.
NoSync ==
    /\ variant \in Variants
    /\ now = 0
    /\ svc = constructor(EmptySession, EmptyLocal)
    /\ inv = [p \in SyncIds |-> IdleInvocation]
    /\ xch = "idle"
    /\ quotaErrors = 0

NormalizeInit ==
    /\ NoSync
    /\ \/ \E zone \in Zones, t \in Instants, agreement \in RawAgreements :
             calc = [fn |-> "processAgreement", zone |-> zone, t |-> t,
                     agreement |-> agreement, out |-> None]
       \/ \E zone \in Zones, t \in Instants :
             /\ variant = "implicit"
             /\ calc = [fn |-> "getSampleAgreements", zone |-> zone, t |-> t,
                        agreement |-> BlankAgreement, out |-> None]

\* processAgreement(agreement) is called and returns or raises.
ProcessAgreementCall ==
    /\ calc.fn = "processAgreement"
    /\ calc.out = None
    /\ calc' = [calc EXCEPT !.out = Some(normalize(variant, calc.zone, calc.t, calc.agreement))]
    /\ UNCHANGED <<variant, now, svc, inv, xch, quotaErrors>>

\* getSampleAgreements() is called and returns or raises.
GetSampleAgreementsCall ==
    /\ calc.fn = "getSampleAgreements"
    /\ calc.out = None
    /\ calc' = [calc EXCEPT !.out = Some(getSampleAgreementsAt(calc.zone, calc.t))]
    /\ UNCHANGED <<variant, now, svc, inv, xch, quotaErrors>>

NormalizeNext == ProcessAgreementCall \/ GetSampleAgreementsCall

NormalizeSpec == NormalizeInit /\ [][NormalizeNext]_vars

\* processAgreement was called and has returned or raised.
Normalized == calc.fn = "processAgreement" /\ IsSome(calc.out)

\* The records the call that is followed has returned.
returnedRecords ==
    IF calc.fn \notin {"processAgreement", "getSampleAgreements"} THEN {}
    ELSE IF ~IsSome(calc.out) THEN {}
    ELSE IF Val(calc.out).threw THEN {}
    ELSE IF calc.fn = "processAgreement" THEN {Val(calc.out).value}
    ELSE {Val(calc.out).value[k] : k \in 1..Len(Val(calc.out).value)}

\* C11: normalize (processAgreement, which ends in calculateDerivedFields)
\* never raises, whatever the raw agreement, and the territoryCountries and
\* productCategories of its result are arrays.
C11_NormalizeNeverRaises ==
    Normalized =>
        /\ ~Val(calc.out).threw
        /\ Val(calc.out).value.territoryCountries.t = "array"
        /\ Val(calc.out).value.productCategories.t = "array"

\* C12: every agreement a successful sync caches, that is every record
\* processAgreement returns and every record of the demo dataset, has
\* expirationDate, nonRenewalDeadline, renewalUrgency and aiRiskScore set,
\* the urgency one of Urgent, Warning, On Track and the risk tier one of
\* Low, Medium, High.
C12_CachedAgreementsFullyDerived ==
    \A agreement \in returnedRecords :
        /\ Truthy(agreement.expirationDate)
        /\ Truthy(agreement.nonRenewalDeadline)
        /\ agreement.renewalUrgency \in {Str("Urgent"), Str("Warning"), Str("On Track")}
        /\ agreement.aiRiskScore \in {Str("Low"), Str("Medium"), Str("High")}

\* ------------------------------------------- detectConflicts, on its own
\* Agreements as detectConflicts reads them; the one at index k of the
\* array has the id AgreementIds[k].
AgreementIds == [k \in 1..(MaxAgreements + 2) |-> <<"g", k>>]

TerritoryLists == {<<>>, <<"France">>, <<"Germany", "Austria">>, <<"Austria", "Germany">>}
ProductLists == {<<"MRI">>, <<"CT">>, <<"CT", "MRI">>}
ExclusivityValues == {"Exclusive", "Non-Exclusive", "Conditional Exclusive"}

AgreementAt(k) ==
    {[id |-> AgreementIds[k], navigatorId |-> AgreementIds[k], title |-> "T",
      expirationDate |-> "2027-01-31",
      territoryCountries |-> terr, productCategories |-> prod, exclusivityStatus |-> excl] :
        terr \in TerritoryLists, prod \in ProductLists, excl \in ExclusivityValues}

RECURSIVE AgreementArrays(_)
AgreementArrays(n) ==
    IF n = 0 THEN {<<>>}
    ELSE LET shorter == AgreementArrays(n - 1)
         IN  shorter \cup {Append(arr, a) : arr \in {x \in shorter : Len(x) = n - 1},
                                            a \in AgreementAt(n)}

ConflictInit ==
    /\ NoSync
    /\ \E agreements \in AgreementArrays(MaxAgreements) :
          calc = [fn |-> "detectConflicts", agreements |-> agreements, out |-> None]

\* detectConflicts(agreements) is called and returns; the array it was
\* given is read only.
DetectConflictsCall ==
    /\ calc.fn = "detectConflicts"
    /\ calc.out = None
    /\ calc' = [calc EXCEPT !.out = Some(detectConflicts(calc.agreements))]
    /\ UNCHANGED <<variant, now, svc, inv, xch, quotaErrors>>

ConflictNext == DetectConflictsCall

ConflictSpec == ConflictInit /\ [][ConflictNext]_vars

\* detectConflicts has returned.
Detected == calc.fn = "detectConflicts" /\ IsSome(calc.out)

\* Index of the agreement with the given id in the array handed in.
indexOf(id) == CHOOSE k \in 1..Len(calc.agreements) : calc.agreements[k].id = id

\* The pair of indexes record r of the result refers to.
pairOf(r) == <<indexOf(r.agreement1.id), indexOf(r.agreement2.id)>>

\* Two arrays have an element in common.
Share(xs, ys) == \E a \in 1..Len(xs), b \in 1..Len(ys) : xs[a] = ys[b]

\* C13: detectConflicts emits a record for the pair (i, j), i < j, exactly
\* when the two agreements share a territory, share a product category and
\* at least one of them is 'Exclusive'; each such pair yields one record
\* and nothing else is emitted.
C13_RecordIffOverlapAndExclusive ==
    Detected =>
        LET conflicts == Val(calc.out)
            n == Len(calc.agreements)
            flagged(i, j) ==
                /\ Share(calc.agreements[i].territoryCountries, calc.agreements[j].territoryCountries)
                /\ Share(calc.agreements[i].productCategories, calc.agreements[j].productCategories)
                /\ \/ calc.agreements[i].exclusivityStatus = "Exclusive"
                   \/ calc.agreements[j].exclusivityStatus = "Exclusive"
            records(i, j) == {k \in 1..Len(conflicts) : pairOf(conflicts[k]) = <<i, j>>}
        IN  /\ \A i, j \in 1..n :
                  Cardinality(records(i, j)) = IF i < j /\ flagged(i, j) THEN 1 ELSE 0
            /\ Len(conflicts) = Cardinality({<<i, j>> \in (1..n) \X (1..n) : i < j /\ flagged(i, j)})

\* Three agreements that overlap pairwise: the Exclusive one conflicts with
\* each of the others, the Non-Exclusive and the Conditional Exclusive one
\* do not conflict with each other.
C13_Witness ==
    /\ Detected
    /\ Len(calc.agreements) = 3
    /\ calc.agreements[1].exclusivityStatus = "Non-Exclusive"
    /\ calc.agreements[2].exclusivityStatus = "Conditional Exclusive"
    /\ calc.agreements[3].exclusivityStatus = "Exclusive"
    /\ \A i, j \in 1..3 :
          /\ Share(calc.agreements[i].territoryCountries, calc.agreements[j].territoryCountries)
          /\ Share(calc.agreements[i].productCategories, calc.agreements[j].productCategories)
    /\ Len(Val(calc.out)) = 2

\* C14: every conflict record has severity High if and only if both
\* agreements it refers to are Exclusive, and Medium otherwise, exactly one
\* of them then being Exclusive.
C14_SeverityHighIffBothExclusive ==
    Detected =>
        \A k \in 1..Len(Val(calc.out)) :
            LET r == Val(calc.out)[k]
                first == calc.agreements[pairOf(r)[1]].exclusivityStatus = "Exclusive"
                second == calc.agreements[pairOf(r)[2]].exclusivityStatus = "Exclusive"
            IN  /\ r.severity \in {"High", "Medium"}
                /\ r.severity = "High" <=> (first /\ second)
                /\ r.severity = "Medium" => (first # second)

\* A result with a High record, a Medium record whose first agreement is
\* the Exclusive one and a Medium record whose second agreement is.
C14_Witness ==
    /\ Detected
    /\ \E k \in 1..Len(Val(calc.out)) : Val(calc.out)[k].severity = "High"
    /\ \E k \in 1..Len(Val(calc.out)) :
          /\ Val(calc.out)[k].severity = "Medium"
          /\ Val(calc.out)[k].agreement1.exclusivity = "Exclusive"
    /\ \E k \in 1..Len(Val(calc.out)) :
          /\ Val(calc.out)[k].severity = "Medium"
          /\ Val(calc.out)[k].agreement2.exclusivity = "Exclusive"

\* C15: in every conflict record overlappingTerritories and
\* overlappingProducts are non-empty and are the elements of the first
\* agreement's territories (product categories) that occur in the second
\* agreement's, in the first agreement's order.
C15_OverlapsAreFirstFilteredBySecond ==
    Detected =>
        \A k \in 1..Len(Val(calc.out)) :
            LET r == Val(calc.out)[k]
                a == calc.agreements[pairOf(r)[1]]
                b == calc.agreements[pairOf(r)[2]]
                kept(xs, ys) == SelectSeq(xs, LAMBDA x : \E n \in 1..Len(ys) : ys[n] = x)
            IN  /\ r.overlappingTerritories # <<>>
                /\ r.overlappingProducts # <<>>
                /\ r.overlappingTerritories = kept(a.territoryCountries, b.territoryCountries)
                /\ r.overlappingProducts = kept(a.productCategories, b.productCategories)

\* A record of two agreements that list the same two territories in
\* opposite orders, and of which the second has one product more.
C15_Witness ==
    /\ Detected
    /\ \E k \in 1..Len(Val(calc.out)) :
          LET r == Val(calc.out)[k]
          IN  /\ calc.agreements[pairOf(r)[1]].territoryCountries = <<"Germany", "Austria">>
              /\ calc.agreements[pairOf(r)[2]].territoryCountries = <<"Austria", "Germany">>
              /\ r.overlappingTerritories = <<"Germany", "Austria">>
              /\ calc.agreements[pairOf(r)[1]].productCategories = <<"MRI">>
              /\ calc.agreements[pairOf(r)[2]].productCategories = <<"CT", "MRI">>
              /\ r.overlappingProducts = <<"MRI">>

C17_UrgencyBands ==
    \A agreement \in returnedRecords :
        LET d == agreement.daysUntilDeadline
        IN  /\ d \in 1..30 => agreement.renewalUrgency = Str("Urgent")
            /\ d \in 31..90 => agreement.renewalUrgency = Str("Warning")
            /\ d <= 0 => agreement.renewalUrgency = Str("On Track")
            /\ d >= 91 => agreement.renewalUrgency = Str("On Track")

\* A normalized record exactly 30 days before its deadline, found Urgent.
C17_Witness ==
    /\ Normalized
    /\ \E agreement \in returnedRecords :
          agreement.daysUntilDeadline = 30 /\ agreement.renewalUrgency = Str("Urgent")

\* ------------------------------------------------------------------
\* calculateRiskScore followed on its own: one call on an agreement whose
\* currentPerformance, minimumPerformanceThreshold, daysUntilDeadline and
\* exclusivityStatus are drawn around every boundary the rules have.
\* ------------------------------------------------------------------

Performances == {0, 65, 78, 79, 80, 84, 85, 89, 90, 94, 95}

Thresholds == {80, 85, 90}

DeadlineDays == {-400, -1, 0, 1, 30, 31, 45, 90, 91, 400}

RiskInit ==
    /\ NoSync
    /\ \E p \in Performances, th \in Thresholds, d \in DeadlineDays,
          e \in ExclusivityValues :
          calc = [fn |-> "calculateRiskScore",
                  agreement |-> [currentPerformance |-> Num(p),
                                 minimumPerformanceThreshold |-> Num(th),
                                 daysUntilDeadline |-> d,
                                 exclusivityStatus |-> Str(e)],
                  out |-> None]

CalculateRiskScoreCall ==
    /\ calc.fn = "calculateRiskScore"
    /\ calc.out = None
    /\ calc' = [calc EXCEPT !.out = Some(calculateRiskScore(calc.agreement))]
    /\ UNCHANGED <<variant, now, svc, inv, xch, quotaErrors>>

RiskNext == CalculateRiskScoreCall

RiskSpec == RiskInit /\ [][RiskNext]_vars

Scored == calc.fn = "calculateRiskScore" /\ IsSome(calc.out)

\* C18: the risk tier is the tier of the sum of three independent rules:
\* performance below the threshold adds 3, else below threshold + 5 adds 1;
\* a deadline in 1..30 days adds 3, in 31..90 adds 1; Conditional Exclusive
\* with performance below 90 adds 2.  A total of 5 or more is High, of 2 or
\* more Medium, anything less Low.
C18_RiskTierOfRuleSum ==
    Scored =>
        LET p == calc.agreement.currentPerformance.v
            th == calc.agreement.minimumPerformanceThreshold.v
            d == calc.agreement.daysUntilDeadline
            performanceRule == IF p < th THEN 3 ELSE IF p < th + 5 THEN 1 ELSE 0
            deadlineRule == IF d \in 1..30 THEN 3 ELSE IF d \in 31..90 THEN 1 ELSE 0
            conditionalRule ==
                IF calc.agreement.exclusivityStatus = Str("Conditional Exclusive") /\ p < 90
                THEN 2 ELSE 0
            total == performanceRule + deadlineRule + conditionalRule
        IN  /\ total >= 5 => Val(calc.out) = "High"
            /\ total \in 2..4 => Val(calc.out) = "Medium"
            /\ total < 2 => Val(calc.out) = "Low"

\* Performance 78 against threshold 85, 45 days before the deadline, not
\* Conditional Exclusive: 3 + 1 points, found Medium.
C18_Witness ==
    /\ Scored
    /\ calc.agreement.currentPerformance = Num(78)
    /\ calc.agreement.minimumPerformanceThreshold = Num(85)
    /\ calc.agreement.daysUntilDeadline = 45
    /\ calc.agreement.exclusivityStatus = Str("Exclusive")
    /\ Val(calc.out) = "Medium"

\* C19: when the implicit-grant service normalizes a raw agreement that has
\* no expiration date and returns, the expirationDate of the result is the effective
\* date plus the parsed term length in years (1 if it does not parse)
\* whenever the keys that supply the canonical effectiveDate and
\* initialTermLength hold both, and one year after the evaluation instant
\* when the agreement holds an effective date and a term length under no
\* key at all.
C19_ExpirationFallback ==
    (/\ Normalized
     /\ ~Val(calc.out).threw
     /\ variant = "implicit"
     /\ ~Truthy(Or(calc.agreement.cf_expirationDate, calc.agreement.expirationDate)))
    =>
        LET raw == calc.agreement
            effective == Or(raw.cf_effectiveDate, Or(raw.effectiveDate, raw.executionDate))
            term == Or(raw.cf_initialTermLength, raw.cf_termLength)
            years == IF Truthy(parseFloat(term)) THEN parseFloat(term).v ELSE 1
            byTerm == isoText(addLocalYears(calc.zone, newDate(effective), years))
            byInstant == isoText(addLocalYears(calc.zone, DateAt(calc.t), 1))
            set(date) == Val(calc.out).value.expirationDate = date
        IN  /\ (Truthy(effective) /\ Truthy(term) /\ newDate(effective).valid) => set(byTerm)
            /\ (~Truthy(effective) /\ ~Truthy(term) /\ ~Truthy(raw.termLength))
                   => set(byInstant)

\* C20: on every record that went through calculateDerivedFields, with
\* expirationDate E and nonRenewalNoticeDays d, nonRenewalDeadline is the
\* calendar date d days before E.
C20_DeadlineIsNoticeDaysBeforeExpiration ==
    \A agreement \in returnedRecords :
        agreement.expirationDate.t = "isodate" =>
            LET E == agreement.expirationDate.v
                d == agreement.nonRenewalNoticeDays.v
            IN  agreement.nonRenewalDeadline
                    = [t |-> "isodate", v |-> CivilFromDays(MakeDay(E.y, E.m, E.d) - d)]

\* A candidate value that is present, not null and not the empty string.
NonEmpty(x) == x.t \notin {"undefined", "null"} /\ x # Str("")

\* The first non-empty value of an ordered list of candidates, or the default.
RECURSIVE firstNonEmpty(_, _)
firstNonEmpty(candidates, default) ==
    IF candidates = <<>> THEN default
    ELSE IF NonEmpty(Head(candidates)) THEN Head(candidates)
    ELSE firstNonEmpty(Tail(candidates), default)

\* C21: in a normalized record effectiveDate, exclusivityStatus and
\* nonRenewalNoticeDays hold the first non-empty candidate of the field's
\* priority list (for the number, what it parses to), and the default only
\* when no candidate holds a value; a candidate holding 0 counts as a value.
C21_FirstNonEmptyCandidateWins ==
    (Normalized /\ ~Val(calc.out).threw) =>
        LET raw == calc.agreement
            out == Val(calc.out).value
            only(first, others) == IF variant = "pkce" THEN <<first>> ELSE <<first>> \o others
            notice == firstNonEmpty(only(raw.cf_nonRenewalNoticeDays, <<raw.cf_noticeDays>>),
                                    Num(90))
        IN  /\ out.effectiveDate
                   = firstNonEmpty(<<raw.cf_effectiveDate, raw.effectiveDate>>
                                       \o (IF variant = "pkce" THEN <<>> ELSE <<raw.executionDate>>),
                                   JsUndefined)
            /\ out.exclusivityStatus
                   = firstNonEmpty(only(raw.cf_exclusivityStatus, <<raw.cf_exclusivity>>),
                                   Str("Non-Exclusive"))
            /\ parseFloat(notice).t = "number" => out.nonRenewalNoticeDays = parseFloat(notice)

\* ------------------------------------------------------------------
\* parseMultiValue and parseAnnualMinimums followed on their own: one call
\* on a value of every shape a custom field can have.
\* ------------------------------------------------------------------

ParseTexts ==
    {"", "Germany", "Germany, Austria", "Germany|Austria", "Germany, Austria;  France",
     ",", " ; ", " France ", "MRI;;CT|", "TBD"} \cup JsonTexts

ParseValues ==
    {JsUndefined, JsNull, JsNaN, Num(0), Num(5), Commitment(2024, 100), IsoText(2025, 1, 15),
     Arr(<<>>), Arr(<<Str("Germany"), Str("Austria")>>), Arr(<<Str("a, b")>>),
     Arr(<<Commitment(2023, 50), Commitment(2024, 100)>>), Arr(<<JsNull>>)}
    \cup {Str(text) : text \in ParseTexts}

ParseInit ==
    /\ NoSync
    /\ \E fn \in {"parseMultiValue", "parseAnnualMinimums"}, value \in ParseValues :
          calc = [fn |-> fn, value |-> value, out |-> None]

ParseMultiValueCall ==
    /\ calc.fn = "parseMultiValue"
    /\ calc.out = None
    /\ calc' = [calc EXCEPT !.out = Some(parseMultiValue(variant, calc.value))]
    /\ UNCHANGED <<variant, now, svc, inv, xch, quotaErrors>>

ParseAnnualMinimumsCall ==
    /\ calc.fn = "parseAnnualMinimums"
    /\ calc.out = None
    /\ calc' = [calc EXCEPT !.out = Some(parseAnnualMinimums(variant, calc.value))]
    /\ UNCHANGED <<variant, now, svc, inv, xch, quotaErrors>>

ParseNext == ParseMultiValueCall \/ ParseAnnualMinimumsCall

ParseSpec == ParseInit /\ [][ParseNext]_vars

\* What JSON.parse gives for a text that is JSON, and nothing for any
\* other value.
decoded(value) ==
    IF value.t = "string" /\ ~JSONparse(value).threw THEN <<JSONparse(value).value>> ELSE <<>>

\* C22: parseAnnualMinimums always returns a sequence: its argument when
\* that is a sequence, the decoded value when the argument is a text that
\* decodes to a sequence, and the empty sequence for every other argument.
C22_AnnualMinimumsAlwaysSequence ==
    (calc.fn = "parseAnnualMinimums" /\ IsSome(calc.out)) =>
        Val(calc.out) =
            IF calc.value.t = "array" THEN calc.value
            ELSE IF decoded(calc.value) # <<>> /\ decoded(calc.value)[1].t = "array"
            THEN decoded(calc.value)[1]
            ELSE Arr(<<>>)

\* C23: parseMultiValue returns a sequence argument unchanged; for a text
\* the decoded array when the text is a JSON array and otherwise its pieces
\* between ',', ';' and '|', trimmed, without the empty ones; the empty
\* sequence for every other argument.
C23_MultiValueDecodedOrSplit ==
    (calc.fn = "parseMultiValue" /\ IsSome(calc.out)) =>
        Val(calc.out) =
            IF calc.value.t = "array" THEN calc.value
            ELSE IF ~IsString(calc.value) THEN Arr(<<>>)
            ELSE IF decoded(calc.value) # <<>> /\ decoded(calc.value)[1].t = "array"
            THEN decoded(calc.value)[1]
            ELSE Arr(split("implicit", calc.value))

\* C24: the progress values reported during one sync never decrease from
\* one report to the next and lie between 0 and 100, the report of the
\* error stage included.
C24_ProgressNeverDecreases ==
    \A p \in SyncIds :
        \A k \in 1..Len(inv[p].stages) :
            /\ inv[p].stages[k].progress \in 0..100
            /\ k > 1 => inv[p].stages[k - 1].progress <= inv[p].stages[k].progress

\* The service finds a credential: isAuthenticated() is true, and in the
\* PKCE service, which has no such method, ensureValidToken() does not raise.
authenticated ==
    IF variant = "implicit" THEN isAuthenticated(svc, now).ok
    ELSE ensureValidToken(svc, now).outcome # "throw"

\* Nothing of a connection is left: no token in memory or in the session,
\* no OAuth state, nothing cached, nothing persisted.
AllCleared ==
    /\ svc.accessToken = None
    /\ getCachedAgreements(svc) = <<>>
    /\ getCachedConflicts(svc) = <<>>
    /\ getLastSyncTime(svc) = None
    /\ svc.sessionStorage.nav_token = None
    /\ svc.sessionStorage.oauth_state = None
    /\ svc.localStorage.nav_agreements = None
    /\ svc.localStorage.nav_conflicts = None
    /\ svc.localStorage.nav_last_sync = None
    /\ ~authenticated

\* A step that completes a login: the OAuth callback is accepted, or the
\* token request of the code exchange is answered with tokens.
LoginCompletes ==
    \/ \E expiresIn \in ExpiresIn :
          HandleOAuthCallback("at1", expiresIn, svc.sessionStorage.oauth_state)
    \/ \E expiresIn \in ExpiresIn : ExchangeTokenResp(TRUE, expiresIn)

\* C25: disconnect(), called with no sync in flight, leaves all data
\* cleared: no access token, empty cached agreements and conflicts, no
\* last-sync time, no stored token, OAuth state or persisted result; and
\* from then on isAuthenticated stays false until a login completes.
C25_DisconnectClearsAll ==
    [][/\ (NoSyncInFlight /\ Disconnect) => AllCleared'
       /\ (NoSyncInFlight /\ ~authenticated /\ authenticated') => LoginCompletes]_vars

\* Everything is cleared after a sync had got as far as its caching stage
\* (where a write raised): only disconnect() removes the stored token.
C25_Witness ==
    /\ AllCleared
    /\ NoSyncInFlight
    /\ quotaErrors > 0

\* C26: handleOAuthCallback stores an access token only when the state
\* parameter of the callback is a value that an earlier
\* initiateOAuthImplicit stored and that has not been consumed yet; the
\* accepted state is consumed.
C26_CallbackNeedsStoredState ==
    [][\A expiresIn \in ExpiresIn, state \in CallbackStates :
          HandleOAuthCallback("at1", expiresIn, state)
              => /\ IsSome(state)
                 /\ svc.sessionStorage.oauth_state = state
                 /\ svc'.sessionStorage.oauth_state = None]_vars

\* ------------------------------------------------------ overlapping syncs
\* syncAgreements has no guard against re-entry: a second call can start
\* while the first is suspended at one of its awaits.  Two invocations on
\* a connected page; slot 1 is the call made first.
ConcIds == {1, 2}

ConcInit ==
    /\ variant \in Variants
    /\ now = 0
    /\ svc \in {connected(variant, expiresIn) : expiresIn \in ExpiresIn}
    /\ inv = [p \in ConcIds |-> IdleInvocation]
    /\ xch = "idle"
    /\ quotaErrors = 0
    /\ calc = NoCalc

\* The clock advances while calls are suspended.
ConcTick ==
    /\ now < MaxTime
    /\ now' = now + 1
    /\ UNCHANGED <<variant, svc, inv, xch, quotaErrors, calc>>

\* The caller invokes syncAgreements: the first call goes to slot 1, the
\* second to slot 2, each slot is used once.
ConcStart(p) ==
    /\ inv[p].pc = "idle"
    /\ p = 2 => inv[1].pc # "idle"
    /\ SyncStartImplicit(p) \/ SyncStartPKCE(p)

ConcNext ==
    \/ ConcTick
    \/ \E p \in ConcIds : ConcStart(p) \/ SyncStep(p)

ConcSpec == ConcInit /\ [][ConcNext]_vars

\* Invocation p returns in this step.
ReturnsNow(p) == inv[p].pc # "done" /\ inv'[p].pc = "done"

\* C27: with overlapping syncs the last one to finish wins: whenever a
\* sync returns success, the cache, the timestamp and the persisted copy
\* hold what that sync computed, whichever call was made first.
C27_LastFinisherWins ==
    [][\A p \in ConcIds :
          (ReturnsNow(p) /\ Val(inv'[p].result).success)
              => LET c == Val(inv'[p].cycle)
                 IN  /\ svc'.cache.agreements = Some(c.agreements)
                     /\ svc'.cache.conflicts = Some(c.conflicts)
                     /\ svc'.lastSyncTime = Some(c.time)
                     /\ svc'.localStorage.nav_agreements = Some(stringifyAgreements(c.agreements))]_vars

\* Both calls have returned success with different data, and the cache
\* holds the data of the call made first.
C27_Witness ==
    /\ \A p \in ConcIds : inv[p].pc = "done" /\ Val(inv[p].result).success
    /\ Val(inv[1].cycle).agreements # Val(inv[2].cycle).agreements
    /\ svc.cache.agreements = Some(Val(inv[1].cycle).agreements)
    /\ svc.localStorage.nav_agreements = Some(stringifyAgreements(Val(inv[1].cycle).agreements))

\* Each of the six stored items is either empty or what cycle c wrote (the
\* in-memory agreements possibly read back from the persisted copy).
FromCycleOrEmpty(c) ==
    /\ svc.cache.agreements \in {None, Some(c.agreements),
                                  Some(parse(stringifyAgreements(c.agreements)))}
    /\ svc.cache.conflicts \in {None, Some(c.conflicts)}
    /\ svc.lastSyncTime \in {None, Some(c.time)}
    /\ svc.localStorage.nav_agreements \in {None, Some(stringifyAgreements(c.agreements))}
    /\ svc.localStorage.nav_conflicts \in {None, Some(stringifyConflicts(c.conflicts))}
    /\ svc.localStorage.nav_last_sync \in {None, Some(c.time)}

NothingStored ==
    /\ svc.cache = EmptyCache
    /\ svc.lastSyncTime = None
    /\ svc.localStorage = EmptyLocal

\* C28: under every interleaving of overlapping syncs, at every suspension
\* point the in-memory agreements and conflicts, the persisted agreements
\* and conflicts and the timestamp all come from one and the same sync
\* cycle.
C28_OneCycleAtEverySuspension ==
    \/ NothingStored
    \/ \E p \in ConcIds : IsSome(inv[p].cycle) /\ FromCycleOrEmpty(Val(inv[p].cycle))

\* C29: once disconnect() has returned, the cached and persisted
\* agreements, conflicts and timestamp stay empty until a sync started
\* after the disconnect completes: a sync that was suspended when
\* disconnect ran (its record is marked disc) stores nothing when it
\* resumes.
C29_StaysEmptyAfterDisconnect ==
    \A p \in SyncIds : inv[p].disc => NothingStored

\* C30: in the implicit-grant service a sync that returns success has
\* cached at least one agreement: its count is >= 1 and the cached set is
\* not empty.
C30_ImplicitSuccessCachesAgreements ==
    \A p \in SyncIds :
        (variant = "implicit" /\ Succeeded(p))
            => /\ Val(inv[p].result).count >= 1
               /\ Val(inv[p].cycle).agreements # <<>>

====
